---- MODULE Spec2Model ----
(***************************************************************************)
(* A model of the MCP2210 command/response protocol engine (mcp2210-rs).   *)
(*                                                                         *)
(* The host handle (struct Mcp2210, src/src/lib.rs) exchanges 64-byte      *)
(* frames with the chip over a duplex transport.  A public operation       *)
(* builds a command frame, blocks in one write, blocks in one read into    *)
(* the retained response buffer, and interprets the response.  The chunked *)
(* driver spi_transfer_to_end repeats the single-frame spi_transfer.       *)
(*                                                                         *)
(* The transport and the chip are the environment: a write or a read may   *)
(* fail, and the response frame is any frame of DeviceResponses.           *)
(***************************************************************************)
EXTENDS Integers, Sequences, FiniteSets, TLC

VARIABLES
  pc,               \* "idle" | "write" | "read" | "done" | "panic": where the caller is
  call,             \* the operation in progress (or the last one): [op, arg]
  cmd,              \* the command frame of the current exchange (local `cmd`)
  response_buffer,  \* Mcp2210.response_buffer
  result,           \* what the last public operation returned
  ret_do_command,   \* what the last do_command invocation returned
  phase,            \* spi_transfer_to_end: "Start" | "Continue" | "-"
  data,             \* spi_transfer_to_end: the unsent rest of the input slice
  buf,              \* spi_transfer_to_end: the caller's output Vec<u8>
  nwrites,          \* transport writes attempted by the current call
  nreads            \* transport reads attempted by the current call

vars == <<pc, call, cmd, response_buffer, result, ret_do_command, phase, data,
          buf, nwrites, nreads>>

---------------------------------------------------------------------------
(* Bounds of the model and constants of the program.                       *)

\* exchanges one spi_transfer_to_end call may start before the model stops following it
MaxExchanges == 5

\* type Buffer = [u8; 64]
BufferLen == 64
\* spi_transfer: at most 60 payload bytes per frame
MaxPayload == 60
\* product / vendor name: at most 29 UTF-16 code units
MaxNameUnits == 29

---------------------------------------------------------------------------
(* Primitive helpers: fixed-width integers, slices, frames.                *)

Min2(a, b) == IF a < b THEN a ELSE b

\* `v as u8`
U8(v) == v % 256

RECURSIVE BitOr(_, _)
BitOr(a, b) ==
  IF a = 0 THEN b
  ELSE IF b = 0 THEN a
  ELSE (IF a % 2 = 1 \/ b % 2 = 1 THEN 1 ELSE 0) + 2 * BitOr(a \div 2, b \div 2)

RECURSIVE BitAnd(_, _)
BitAnd(a, b) ==
  IF a = 0 \/ b = 0 THEN 0
  ELSE (IF a % 2 = 1 /\ b % 2 = 1 THEN 1 ELSE 0) + 2 * BitAnd(a \div 2, b \div 2)

\* let mut cmd: Buffer = [0; 64]
ZeroBuffer == [i \in 0..(BufferLen - 1) |-> 0]

\* buf[start..][..Len(s)].copy_from_slice(s)
CopyFromSlice(b, start, s) ==
  [i \in 0..(BufferLen - 1) |->
     IF i >= start /\ i < start + Len(s) THEN s[i - start + 1] ELSE b[i]]

\* &buf[start..][..n] as a sequence
Slice(b, start, n) == [i \in 1..n |-> b[start + i - 1]]

\* &data[..n] and &data[n..]
Take(s, n) == SubSeq(s, 1, n)
Drop(s, n) == SubSeq(s, n + 1, Len(s))

\* Result values: Ok(v) and Err(kind(args)), and "no call has returned yet"
Ok(v) == [tag |-> "Ok", kind |-> "", args |-> <<>>, val |-> v]
Err(k, a) == [tag |-> "Err", kind |-> k, args |-> a, val |-> <<>>]
NoResult == [tag |-> "None", kind |-> "", args |-> <<>>, val |-> <<>>]

\* .map_err(Mcp2210Error::InvalidResponse)
map_err_InvalidResponse(r) ==
  IF r.tag = "Err" THEN Err("InvalidResponse", r.args) ELSE r

---------------------------------------------------------------------------
(* utils.rs                                                                *)

as_bool(v) ==
  IF v = 0 THEN Ok(FALSE) ELSE IF v = 1 THEN Ok(TRUE) ELSE Err("u8", <<v>>)

as_u16(a, b) == BitOr(b * 256, a)

\* as_u32 with the two middle bytes exchanged
as_u32_middle_swapped(a, b, c, d) ==
  BitOr(BitOr(BitOr(d * 16777216, b * 65536), c * 256), a)

as_u32(a, b, c, d) ==
  BitOr(BitOr(BitOr(d * 16777216, c * 65536), b * 256), a)

\* str::encode_utf16 on a string given as its Unicode scalar values
RECURSIVE encode_utf16(_)
encode_utf16(s) ==
  IF s = <<>> THEN <<>>
  ELSE LET c == Head(s)
           u == IF c < 65536 THEN <<c>>
                ELSE <<55296 + ((c - 65536) \div 1024), 56320 + ((c - 65536) % 1024)>>
       IN u \o encode_utf16(Tail(s))

\* encode_utf16_to_buffer storing the high byte of each code unit first
encode_units_big_endian(b, idx, units) ==
  [i \in DOMAIN b |->
     IF i >= idx /\ i < idx + 2 * Len(units)
     THEN LET u == units[((i - idx) \div 2) + 1]
          IN IF (i - idx) % 2 = 0 THEN U8(u \div 256) ELSE U8(u)
     ELSE b[i]]

\* encode_utf16_to_buffer(s, &mut cmd[6..]), given the buffer and the slice start
RECURSIVE encode_units(_, _, _)
encode_units(b, idx, units) ==
  IF units = <<>> THEN b
  ELSE encode_units([b EXCEPT ![idx] = U8(Head(units)),
                              ![idx + 1] = U8(Head(units) \div 256)],
                    idx + 2, Tail(units))

encode_utf16_to_buffer(s, b, start) == encode_units(b, start, encode_utf16(s))

\* String::from_utf16_lossy: the scalar values, U+FFFD for an unpaired surrogate
RECURSIVE from_utf16_lossy(_)
from_utf16_lossy(u) ==
  IF u = <<>> THEN <<>>
  ELSE LET h == Head(u) IN
       IF h >= 55296 /\ h <= 56319 /\ Len(u) >= 2 /\ u[2] >= 56320 /\ u[2] <= 57343
       THEN <<65536 + (h - 55296) * 1024 + (u[2] - 56320)>> \o from_utf16_lossy(Tail(Tail(u)))
       ELSE IF h >= 55296 /\ h <= 57343
       THEN <<65533>> \o from_utf16_lossy(Tail(u))
       ELSE <<h>> \o from_utf16_lossy(Tail(u))

---------------------------------------------------------------------------
(* types.rs: the typed records and their wire layout                       *)

\* from_bits_truncate keeping bits 0..7 only
from_bits_truncate_8_bits(v) == BitAnd(v, 255)

\* bitflags from_bits_truncate for ChipSelect / GpioValue / GpioDirection (bits 0..8)
from_bits_truncate(v) == BitAnd(v, 511)

\* PinMode::from_u8 falling back to Gpio for an unknown value
PinMode_from_u8_defaulting(v) ==
  CASE v = 0 -> Ok("Gpio")
    [] v = 1 -> Ok("ChipSelect")
    [] v = 2 -> Ok("Dedicated")
    [] OTHER -> Ok("Gpio")

PinMode_from_u8(v) ==
  CASE v = 0 -> Ok("Gpio")
    [] v = 1 -> Ok("ChipSelect")
    [] v = 2 -> Ok("Dedicated")
    [] OTHER -> Err("u8", <<v>>)

PinMode_as_u8(m) ==
  CASE m = "Gpio" -> 0
    [] m = "ChipSelect" -> 1
    [] m = "Dedicated" -> 2

BusOwner_from_u8(v) ==
  CASE v = 0 -> Ok("None")
    [] v = 1 -> Ok("UsbBridge")
    [] v = 2 -> Ok("ExternalMaster")
    [] OTHER -> Err("u8", <<v>>)

UsbPowerOption_from_u8(v) ==
  CASE v = 2 -> Ok("HostPowered")
    [] v = 1 -> Ok("SelfPowered")
    [] OTHER -> Err("u8", <<v>>)

UsbPowerOption_as_u8(p) ==
  CASE p = "SelfPowered" -> 1
    [] p = "HostPowered" -> 2

NvramAccessControl_from_u8(v) ==
  CASE v = 0 -> Ok("None")
    [] v = 64 -> Ok("Password")
    [] v = 128 -> Ok("PermanentlyLocked")
    [] OTHER -> Err("u8", <<v>>)

NvramAccessControl_as_u8(a) ==
  CASE a = "None" -> 0
    [] a = "Password" -> 64
    [] a = "PermanentlyLocked" -> 128

InterruptMode_from_u8(v) ==
  CASE v = 4 -> Ok("HighPulses")
    [] v = 3 -> Ok("LowPulses")
    [] v = 2 -> Ok("RisingEdges")
    [] v = 1 -> Ok("FallingEdges")
    [] v = 0 -> Ok("None")
    [] OTHER -> Err("u8", <<v>>)

InterruptMode_as_u8(m) ==
  CASE m = "None" -> 0
    [] m = "FallingEdges" -> 1
    [] m = "RisingEdges" -> 2
    [] m = "LowPulses" -> 3
    [] m = "HighPulses" -> 4

SpiMode_from_u8(v) ==
  CASE v = 0 -> Ok("Mode0")
    [] v = 1 -> Ok("Mode1")
    [] v = 2 -> Ok("Mode2")
    [] v = 3 -> Ok("Mode3")
    [] OTHER -> Err("u8", <<v>>)

SpiMode_as_u8(m) ==
  CASE m = "Mode0" -> 0
    [] m = "Mode1" -> 1
    [] m = "Mode2" -> 2
    [] m = "Mode3" -> 3

SpiTransferStatus_from_u8(v) ==
  CASE v = 32 -> Ok("Started")
    [] v = 48 -> Ok("Pending")
    [] v = 16 -> Ok("Finished")
    [] OTHER -> Err("u8", <<v>>)

\* format!("Invalid <field> value: {:02x}", v): the field named and the raw byte
InvalidField(field, r) == Err("String", <<field, r.args[1]>>)

\* ChipStatus::from_buffer without the negation of the bus-release byte
ChipStatus_from_buffer_not_negated(b) ==
  LET pending == as_bool(b[2])
      owner == BusOwner_from_u8(b[3])
      guessed == as_bool(b[5])
  IN IF pending.tag = "Err" THEN InvalidField("is_bus_release_pending", pending)
     ELSE IF owner.tag = "Err" THEN InvalidField("bus_owner", owner)
     ELSE IF guessed.tag = "Err" THEN InvalidField("is_password_guessed", guessed)
     ELSE Ok([is_bus_release_pending |-> pending.val,
              bus_owner |-> owner.val,
              password_attempt_count |-> b[4],
              is_password_guessed |-> guessed.val])

ChipStatus_from_buffer(b) ==
  LET pending == as_bool(b[2])
      owner == BusOwner_from_u8(b[3])
      guessed == as_bool(b[5])
  IN IF pending.tag = "Err" THEN InvalidField("is_bus_release_pending", pending)
     ELSE IF owner.tag = "Err" THEN InvalidField("bus_owner", owner)
     ELSE IF guessed.tag = "Err" THEN InvalidField("is_password_guessed", guessed)
     ELSE Ok([is_bus_release_pending |-> ~pending.val,
              bus_owner |-> owner.val,
              password_attempt_count |-> b[4],
              is_password_guessed |-> guessed.val])

UsbParameters_from_buffer(b) ==
  LET power == UsbPowerOption_from_u8(b[29] \div 64)
  IN IF power.tag = "Err" THEN InvalidField("power_option", power)
     ELSE Ok([vid |-> as_u16(b[12], b[13]),
              pid |-> as_u16(b[14], b[15]),
              power_option |-> power.val,
              remote_wakeup_capable |-> BitAnd(b[29], 32) # 0,
              requested_current |-> b[30]])

\* UsbParameters::write_to_buffer shifting the power option by 5 and the flag by 6
UsbParameters_write_to_buffer_bits_swapped(p, b) ==
  [b EXCEPT ![4] = U8(p.vid),
            ![5] = U8(p.vid \div 256),
            ![6] = U8(p.pid),
            ![7] = U8(p.pid \div 256),
            ![8] = BitOr(U8(UsbPowerOption_as_u8(p.power_option) * 32),
                         IF p.remote_wakeup_capable THEN 64 ELSE 0),
            ![9] = p.requested_current]

UsbParameters_write_to_buffer(p, b) ==
  [b EXCEPT ![4] = U8(p.vid),
            ![5] = U8(p.vid \div 256),
            ![6] = U8(p.pid),
            ![7] = U8(p.pid \div 256),
            ![8] = BitOr(U8(UsbPowerOption_as_u8(p.power_option) * 64),
                         IF p.remote_wakeup_capable THEN 32 ELSE 0),
            ![9] = p.requested_current]

GpModeFields ==
  <<"gp0_mode", "gp1_mode", "gp2_mode", "gp3_mode", "gp4_mode", "gp5_mode",
    "gp6_mode", "gp7_mode", "gp8_mode">>

ChipSettings_from_buffer(b) ==
  LET pin(i) == PinMode_from_u8(b[4 + i])
      bad == {i \in 0..8 : pin(i).tag = "Err"}
      first == CHOOSE i \in bad : \A j \in bad : i <= j
      interrupt == InterruptMode_from_u8(BitAnd(b[17] \div 2, 7))
      access == NvramAccessControl_from_u8(b[18])
  IN IF bad # {} THEN InvalidField(GpModeFields[first + 1], pin(first))
     ELSE IF interrupt.tag = "Err" THEN InvalidField("interrupt_mode", interrupt)
     ELSE IF access.tag = "Err" THEN InvalidField("nvram_access_control", access)
     ELSE Ok([gp_mode |-> [i \in 0..8 |-> pin(i).val],
              default_gpio_value |-> from_bits_truncate(as_u16(b[13], b[14])),
              default_gpio_direction |-> from_bits_truncate(as_u16(b[15], b[16])),
              remote_wakeup |-> BitAnd(b[17], 16) # 0,
              interrupt_mode |-> interrupt.val,
              bus_release |-> BitAnd(b[17], 1) = 0,
              nvram_access_control |-> access.val])

\* ChipSettings::write_to_buffer storing the bus-release flag without inverting it
ChipSettings_write_to_buffer_release_plain(s, b) ==
  [i \in 0..(BufferLen - 1) |->
     CASE i >= 4 /\ i <= 12 -> PinMode_as_u8(s.gp_mode[i - 4])
       [] i = 13 -> U8(s.default_gpio_value)
       [] i = 14 -> U8(s.default_gpio_value \div 256)
       [] i = 15 -> U8(s.default_gpio_direction)
       [] i = 16 -> U8(s.default_gpio_direction \div 256)
       [] i = 17 -> BitOr(BitOr(IF s.remote_wakeup THEN 16 ELSE 0,
                                U8(InterruptMode_as_u8(s.interrupt_mode) * 2)),
                          IF s.bus_release THEN 1 ELSE 0)
       [] i = 18 -> NvramAccessControl_as_u8(s.nvram_access_control)
       [] OTHER -> b[i]]

ChipSettings_write_to_buffer(s, b) ==
  [i \in 0..(BufferLen - 1) |->
     CASE i >= 4 /\ i <= 12 -> PinMode_as_u8(s.gp_mode[i - 4])
       [] i = 13 -> U8(s.default_gpio_value)
       [] i = 14 -> U8(s.default_gpio_value \div 256)
       [] i = 15 -> U8(s.default_gpio_direction)
       [] i = 16 -> U8(s.default_gpio_direction \div 256)
       [] i = 17 -> BitOr(BitOr(IF s.remote_wakeup THEN 16 ELSE 0,
                                U8(InterruptMode_as_u8(s.interrupt_mode) * 2)),
                          IF s.bus_release THEN 0 ELSE 1)
       [] i = 18 -> NvramAccessControl_as_u8(s.nvram_access_control)
       [] OTHER -> b[i]]

SpiTransferSettings_from_buffer(b) ==
  LET mode == SpiMode_from_u8(b[20])
  IN IF mode.tag = "Err" THEN InvalidField("spi_mode", mode)
     ELSE Ok([bit_rate |-> as_u32(b[4], b[5], b[6], b[7]),
              cs_idle |-> from_bits_truncate(as_u16(b[8], b[9])),
              cs_active |-> from_bits_truncate(as_u16(b[10], b[11])),
              delay_cs_to_data |-> as_u16(b[12], b[13]),
              delay_last_data_to_cs |-> as_u16(b[14], b[15]),
              delay_between_data |-> as_u16(b[16], b[17]),
              bytes_per_tx |-> as_u16(b[18], b[19]),
              spi_mode |-> mode.val])

SpiTransferSettings_write_to_buffer(s, b) ==
  [b EXCEPT ![4] = U8(s.bit_rate),
            ![5] = U8(s.bit_rate \div 256),
            ![6] = U8(s.bit_rate \div 65536),
            ![7] = U8(s.bit_rate \div 16777216),
            ![8] = U8(s.cs_idle),
            ![9] = U8(s.cs_idle \div 256),
            ![10] = U8(s.cs_active),
            ![11] = U8(s.cs_active \div 256),
            ![12] = U8(s.delay_cs_to_data),
            ![13] = U8(s.delay_cs_to_data \div 256),
            ![14] = U8(s.delay_last_data_to_cs),
            ![15] = U8(s.delay_last_data_to_cs \div 256),
            ![16] = U8(s.delay_between_data),
            ![17] = U8(s.delay_between_data \div 256),
            ![18] = U8(s.bytes_per_tx),
            ![19] = U8(s.bytes_per_tx \div 256),
            ![20] = SpiMode_as_u8(s.spi_mode)]

---------------------------------------------------------------------------
(* lib.rs: the command/response engine                                     *)

Panic(why) == [tag |-> "Panic", kind |-> why, args |-> <<>>, val |-> <<>>]
Returned(r) == [panic |-> FALSE, ret |-> r]
Panicked(why) == [panic |-> TRUE, ret |-> Panic(why)]

SubOps ==
  {"set_nvram_spi_transfer_settings", "set_nvram_chip_settings",
   "set_nvram_usb_parameters", "set_nvram_usb_product_name",
   "set_nvram_usb_vendor_name", "get_nvram_spi_transfer_settings",
   "get_nvram_chip_settings", "get_nvram_usb_parameters",
   "get_nvram_usb_product_name", "get_nvram_usb_vendor_name"}

\* the command code each public operation passes to do_command / do_sub_command
OpCode(op) ==
  CASE op = "get_chip_status" -> 16                     \* 0x10
    [] op = "cancel_spi_transfer" -> 17                 \* 0x11
    [] op = "get_interrupt_event_counter" -> 18         \* 0x12
    [] op = "reset_interrupt_event_counter" -> 18       \* 0x12
    [] op = "get_chip_settings" -> 32                   \* 0x20
    [] op = "set_chip_settings" -> 33                   \* 0x21
    [] op = "set_gpio_value" -> 48                      \* 0x30
    [] op = "get_gpio_value" -> 49                      \* 0x31
    [] op = "set_gpio_direction" -> 50                  \* 0x32
    [] op = "get_gpio_direction" -> 51                  \* 0x33
    [] op = "set_spi_transfer_settings" -> 64           \* 0x40
    [] op = "get_spi_transfer_settings" -> 65           \* 0x41
    [] op = "spi_transfer" -> 66                        \* 0x42
    [] op = "read_eeprom" -> 80                         \* 0x50
    [] op = "write_eeprom" -> 81                        \* 0x51
    [] op \in {"set_nvram_spi_transfer_settings", "set_nvram_chip_settings",
               "set_nvram_usb_parameters", "set_nvram_usb_product_name",
               "set_nvram_usb_vendor_name"} -> 96       \* 0x60
    [] op \in {"get_nvram_spi_transfer_settings", "get_nvram_chip_settings",
               "get_nvram_usb_parameters", "get_nvram_usb_product_name",
               "get_nvram_usb_vendor_name"} -> 97       \* 0x61
    [] op = "send_access_password" -> 112               \* 0x70
    [] op = "request_bus_release" -> 128                \* 0x80

\* the sub-command code of the NVRAM operations
SubCode(op) ==
  CASE op \in {"set_nvram_spi_transfer_settings", "get_nvram_spi_transfer_settings"} -> 16
    [] op \in {"set_nvram_chip_settings", "get_nvram_chip_settings"} -> 32
    [] op \in {"set_nvram_usb_parameters", "get_nvram_usb_parameters"} -> 48
    [] op \in {"set_nvram_usb_product_name", "get_nvram_usb_product_name"} -> 64
    [] op \in {"set_nvram_usb_vendor_name", "get_nvram_usb_vendor_name"} -> 80

\* Validate with the payload limit off by one (>= for >)
Validate_off_by_one(c) ==
  CASE c.op = "spi_transfer" ->
         IF Len(c.arg) >= MaxPayload THEN Err("PayloadSize", <<Len(c.arg)>>) ELSE NoResult
    [] c.op \in {"set_nvram_usb_product_name", "set_nvram_usb_vendor_name"} ->
         LET size == Len(encode_utf16(c.arg))
         IN IF size > MaxNameUnits THEN Err("StringSize", <<size>>) ELSE NoResult
    [] OTHER -> NoResult

\* Validate counting characters (name.chars().count()) instead of UTF-16 code units
Validate_chars(c) ==
  CASE c.op = "spi_transfer" ->
         IF Len(c.arg) > MaxPayload THEN Err("PayloadSize", <<Len(c.arg)>>) ELSE NoResult
    [] c.op \in {"set_nvram_usb_product_name", "set_nvram_usb_vendor_name"} ->
         LET size == Len(c.arg)
         IN IF size > MaxNameUnits THEN Err("StringSize", <<size>>) ELSE NoResult
    [] OTHER -> NoResult

\* what an operation checks before any frame is built
Validate(c) ==
  CASE c.op = "spi_transfer" ->
         IF Len(c.arg) > MaxPayload THEN Err("PayloadSize", <<Len(c.arg)>>) ELSE NoResult
    [] c.op \in {"set_nvram_usb_product_name", "set_nvram_usb_vendor_name"} ->
         LET size == Len(encode_utf16(c.arg))
         IN IF size > MaxNameUnits THEN Err("StringSize", <<size>>) ELSE NoResult
    [] OTHER -> NoResult

\* the closure an operation hands to do_command panics (copy_from_slice on
\* slices of different lengths)
FillerPanics(c) ==
  CASE c.op = "send_access_password" -> (11 - 4) # Len(c.arg)
    [] c.op = "set_nvram_chip_settings" ->
         c.arg.password # <<>> /\ (27 - 19) # Len(c.arg.password)
    [] OTHER -> FALSE

\* the closure an operation hands to do_command, applied to the frame
Filler(c, b) ==
  CASE c.op = "get_interrupt_event_counter" -> [b EXCEPT ![1] = 255]
    [] c.op = "reset_interrupt_event_counter" -> [b EXCEPT ![1] = 0]
    [] c.op = "set_chip_settings" -> ChipSettings_write_to_buffer(c.arg, b)
    [] c.op \in {"set_gpio_value", "set_gpio_direction"} ->
         [b EXCEPT ![4] = U8(c.arg), ![5] = U8(c.arg \div 256)]
    [] c.op \in {"set_spi_transfer_settings", "set_nvram_spi_transfer_settings"} ->
         SpiTransferSettings_write_to_buffer(c.arg, b)
    [] c.op = "spi_transfer" ->
         LET mosi_len == Min2(Len(c.arg), MaxPayload)
         IN CopyFromSlice([b EXCEPT ![1] = U8(mosi_len)], 4, Take(c.arg, mosi_len))
    [] c.op = "read_eeprom" -> [b EXCEPT ![1] = c.arg]
    [] c.op = "write_eeprom" -> [b EXCEPT ![1] = c.arg[1], ![2] = c.arg[2]]
    [] c.op = "set_nvram_chip_settings" ->
         CopyFromSlice(ChipSettings_write_to_buffer(c.arg.settings, b), 19, c.arg.password)
    [] c.op = "set_nvram_usb_parameters" -> UsbParameters_write_to_buffer(c.arg, b)
    [] c.op \in {"set_nvram_usb_product_name", "set_nvram_usb_vendor_name"} ->
         LET size == Len(encode_utf16(c.arg))
         IN encode_utf16_to_buffer(c.arg,
              [b EXCEPT ![4] = U8(U8(size) * 2 + 2), ![5] = 3], 6)
    [] c.op = "send_access_password" -> CopyFromSlice(b, 4, c.arg)
    [] c.op = "request_bus_release" -> [b EXCEPT ![1] = IF c.arg THEN 1 ELSE 0]
    [] OTHER -> b

\* do_command filling the frame over the bytes of the last response
do_command_frame_reusing(cmd_code, c) ==
  Filler(c, [response_buffer EXCEPT ![0] = cmd_code])

\* do_command up to the write: a zeroed frame, the code, the closure
do_command_frame(cmd_code, c) == Filler(c, [ZeroBuffer EXCEPT ![0] = cmd_code])

\* do_sub_command up to the write: the sub-command code, then the closure
do_sub_command_frame(cmd_code, sub_cmd_code, c) ==
  Filler(c, [ZeroBuffer EXCEPT ![0] = cmd_code, ![1] = sub_cmd_code])

CommandFrame(c) ==
  IF c.op \in SubOps THEN do_sub_command_frame(OpCode(c.op), SubCode(c.op), c)
  ELSE do_command_frame(OpCode(c.op), c)

\* do_command with the arms of Unavailable and Busy exchanged
do_command_result_swapped(cmd_code, res) ==
  IF cmd_code # res[0] THEN Err("CommandCode", <<cmd_code, res[0]>>)
  ELSE CASE res[1] = 0 -> Ok(<<>>)
         [] res[1] = 247 -> Err("Busy", <<>>)
         [] res[1] = 248 -> Err("Unavailable", <<>>)
         [] res[1] = 249 -> Err("UnknownCommandCode", <<cmd_code>>)
         [] res[1] = 250 -> Err("EepromWrite", <<>>)
         [] res[1] = 251 -> Err("AccessDenied", <<>>)
         [] res[1] = 252 -> Err("AccessRejected", <<>>)
         [] res[1] = 253 -> Err("AccessDeniedRetry", <<>>)
         [] OTHER -> Err("UnknownErrorCode", <<res[1]>>)

\* do_command matching the status byte before it compares the echoed code
do_command_result_status_first(cmd_code, res) ==
  CASE res[1] = 247 -> Err("Unavailable", <<>>)
    [] res[1] = 248 -> Err("Busy", <<>>)
    [] res[1] = 249 -> Err("UnknownCommandCode", <<cmd_code>>)
    [] res[1] = 250 -> Err("EepromWrite", <<>>)
    [] res[1] = 251 -> Err("AccessDenied", <<>>)
    [] res[1] = 252 -> Err("AccessRejected", <<>>)
    [] res[1] = 253 -> Err("AccessDeniedRetry", <<>>)
    [] res[1] # 0 -> Err("UnknownErrorCode", <<res[1]>>)
    [] OTHER -> IF cmd_code # res[0] THEN Err("CommandCode", <<cmd_code, res[0]>>)
                ELSE Ok(<<>>)

\* do_command after a completed exchange
do_command_result(cmd_code, res) ==
  IF cmd_code # res[0] THEN Err("CommandCode", <<cmd_code, res[0]>>)
  ELSE CASE res[1] = 0 -> Ok(<<>>)
         [] res[1] = 247 -> Err("Unavailable", <<>>)
         [] res[1] = 248 -> Err("Busy", <<>>)
         [] res[1] = 249 -> Err("UnknownCommandCode", <<cmd_code>>)
         [] res[1] = 250 -> Err("EepromWrite", <<>>)
         [] res[1] = 251 -> Err("AccessDenied", <<>>)
         [] res[1] = 252 -> Err("AccessRejected", <<>>)
         [] res[1] = 253 -> Err("AccessDeniedRetry", <<>>)
         [] OTHER -> Err("UnknownErrorCode", <<res[1]>>)

\* do_sub_command comparing the sub-command code before it looks at do_command's result
do_sub_command_result_sub_first(cmd_code, sub_cmd_code, res) ==
  LET r == do_command_result(cmd_code, res)
  IN IF res[2] # sub_cmd_code
     THEN Err("SubCommandCode", <<sub_cmd_code, res[2]>>)
     ELSE r

\* do_sub_command after a completed exchange
do_sub_command_result(cmd_code, sub_cmd_code, res) ==
  LET r == do_command_result(cmd_code, res)
  IN IF r.tag = "Err" THEN r
     ELSE IF res[2] # sub_cmd_code
     THEN Err("SubCommandCode", <<sub_cmd_code, res[2]>>)
     ELSE Ok(<<>>)

\* the engine's verdict on the response of operation c
EngineResult(c, res) ==
  IF c.op \in SubOps THEN do_sub_command_result(OpCode(c.op), SubCode(c.op), res)
  ELSE do_command_result(OpCode(c.op), res)

\* spi_transfer returning the whole payload area of the response as its view
spi_transfer_response_whole_payload(res) ==
  LET miso_len == res[2]
      status == SpiTransferStatus_from_u8(res[3])
  IN IF miso_len > BufferLen - 4 THEN Panicked("slice index out of range")
     ELSE IF status.tag = "Err"
     THEN Returned(Err("InvalidResponse", <<"SPI transfer status", status.args[1]>>))
     ELSE Returned(Ok([data |-> Slice(res, 4, BufferLen - 4), status |-> status.val]))

\* spi_transfer after a successful do_command: the data view, then the status
spi_transfer_response(res) ==
  LET miso_len == res[2]
      status == SpiTransferStatus_from_u8(res[3])
  IN IF miso_len > BufferLen - 4 THEN Panicked("slice index out of range")
     ELSE IF status.tag = "Err"
     THEN Returned(Err("InvalidResponse", <<"SPI transfer status", status.args[1]>>))
     ELSE Returned(Ok([data |-> Slice(res, 4, miso_len), status |-> status.val]))

\* get_nvram_usb_product_name / get_nvram_usb_vendor_name after a successful
\* do_sub_command.  res[4] - 2 underflows for res[4] < 2: a checked build
\* panics there, an unchecked build wraps to 254 or 255 and panics at the slice.
nvram_name_response(res) ==
  LET str_bytes == (res[4] - 2) % 256
      str_chars == str_bytes \div 2
      char_buf == [i \in 1..str_chars |-> as_u16(res[6 + 2 * (i - 1)], res[7 + 2 * (i - 1)])]
  IN IF res[4] < 2 THEN Panicked("subtract with overflow or slice index out of range")
     ELSE IF str_bytes > BufferLen - 6 THEN Panicked("slice index out of range")
     ELSE IF str_bytes % 2 = 1 THEN Panicked("index out of bounds")
     ELSE Returned(Ok(from_utf16_lossy(char_buf)))

\* Finish reading the payload before it looks at the engine's verdict
Finish_decode_first(c, res) ==
  LET r == EngineResult(c, res)
      decoded ==
        CASE c.op \in {"get_chip_status", "cancel_spi_transfer"} ->
               Returned(map_err_InvalidResponse(ChipStatus_from_buffer(res)))
          [] c.op \in {"get_interrupt_event_counter", "reset_interrupt_event_counter"} ->
               Returned(Ok(as_u16(res[4], res[5])))
          [] c.op \in {"get_chip_settings", "get_nvram_chip_settings"} ->
               Returned(map_err_InvalidResponse(ChipSettings_from_buffer(res)))
          [] c.op \in {"get_gpio_value", "get_gpio_direction"} ->
               Returned(Ok(from_bits_truncate(as_u16(res[4], res[5]))))
          [] c.op \in {"get_spi_transfer_settings", "get_nvram_spi_transfer_settings"} ->
               Returned(map_err_InvalidResponse(SpiTransferSettings_from_buffer(res)))
          [] c.op = "spi_transfer" -> spi_transfer_response(res)
          [] c.op = "read_eeprom" ->
               IF res[2] # c.arg
               THEN Returned(Err("InvalidResponse", <<"EEPROM address", c.arg>>))
               ELSE Returned(Ok(res[3]))
          [] c.op = "get_nvram_usb_parameters" ->
               Returned(map_err_InvalidResponse(UsbParameters_from_buffer(res)))
          [] c.op \in {"get_nvram_usb_product_name", "get_nvram_usb_vendor_name"} ->
               nvram_name_response(res)
          [] OTHER -> Returned(r)
  IN IF decoded.panic \/ decoded.ret.tag = "Err" THEN decoded
     ELSE IF r.tag = "Err" THEN Returned(r)
     ELSE decoded

\* a single-frame operation after its exchange completed: [panic, ret]
Finish(c, res) ==
  LET r == EngineResult(c, res)
  IN IF r.tag = "Err" THEN Returned(r)
     ELSE CASE c.op \in {"get_chip_status", "cancel_spi_transfer"} ->
                 Returned(map_err_InvalidResponse(ChipStatus_from_buffer(res)))
            [] c.op \in {"get_interrupt_event_counter", "reset_interrupt_event_counter"} ->
                 Returned(Ok(as_u16(res[4], res[5])))
            [] c.op \in {"get_chip_settings", "get_nvram_chip_settings"} ->
                 Returned(map_err_InvalidResponse(ChipSettings_from_buffer(res)))
            [] c.op \in {"get_gpio_value", "get_gpio_direction"} ->
                 Returned(Ok(from_bits_truncate(as_u16(res[4], res[5]))))
            [] c.op \in {"get_spi_transfer_settings", "get_nvram_spi_transfer_settings"} ->
                 Returned(map_err_InvalidResponse(SpiTransferSettings_from_buffer(res)))
            [] c.op = "spi_transfer" -> spi_transfer_response(res)
            [] c.op = "read_eeprom" ->
                 IF res[2] # c.arg
                 THEN Returned(Err("InvalidResponse", <<"EEPROM address", c.arg>>))
                 ELSE Returned(Ok(res[3]))
            [] c.op = "get_nvram_usb_parameters" ->
                 Returned(map_err_InvalidResponse(UsbParameters_from_buffer(res)))
            [] c.op \in {"get_nvram_usb_product_name", "get_nvram_usb_vendor_name"} ->
                 nvram_name_response(res)
            [] OTHER -> Returned(r)

---------------------------------------------------------------------------
(* lib.rs: the chunked driver spi_transfer_to_end                          *)

\* the spi_transfer call the driver makes on the next chunk of `d`
ChunkCall(d) == [op |-> "spi_transfer", arg |-> Take(d, Min2(Len(d), MaxPayload))]

\* the driver going round again on an I/O error as it does on Busy
ste_step_retry_io(ph, d, out, r) ==
  LET len == Min2(Len(d), MaxPayload)
      same == [pc |-> "done", phase |-> ph, data |-> d, buf |-> out, result |-> r.ret]
  IN IF r.panic THEN [same EXCEPT !.pc = "panic"]
     ELSE IF ph = "Start"
     THEN IF r.ret.tag = "Err" THEN same
          ELSE IF r.ret.val.status # "Started"
          THEN [same EXCEPT !.data = Drop(d, len),
                            !.result = Err("TransferStatus", <<r.ret.val.status>>)]
          ELSE [same EXCEPT !.pc = "write", !.phase = "Continue",
                            !.data = Drop(d, len), !.result = NoResult]
     ELSE IF r.ret.tag = "Ok"
          THEN IF r.ret.val.status = "Finished"
               THEN [same EXCEPT !.data = Drop(d, len),
                                 !.buf = out \o r.ret.val.data,
                                 !.result = Ok(<<>>)]
               ELSE [same EXCEPT !.pc = "write",
                                 !.data = Drop(d, len),
                                 !.buf = out \o r.ret.val.data,
                                 !.result = NoResult]
          ELSE IF r.ret.kind \in {"Busy", "Io"}
          THEN [same EXCEPT !.pc = "write", !.result = NoResult]
          ELSE same

\* the driver going round again on Unavailable as it does on Busy
ste_step_retry_unavailable(ph, d, out, r) ==
  LET len == Min2(Len(d), MaxPayload)
      same == [pc |-> "done", phase |-> ph, data |-> d, buf |-> out, result |-> r.ret]
  IN IF r.panic THEN [same EXCEPT !.pc = "panic"]
     ELSE IF ph = "Start"
     THEN IF r.ret.tag = "Err" THEN same
          ELSE IF r.ret.val.status # "Started"
          THEN [same EXCEPT !.data = Drop(d, len),
                            !.result = Err("TransferStatus", <<r.ret.val.status>>)]
          ELSE [same EXCEPT !.pc = "write", !.phase = "Continue",
                            !.data = Drop(d, len), !.result = NoResult]
     ELSE IF r.ret.tag = "Ok"
          THEN IF r.ret.val.status = "Finished"
               THEN [same EXCEPT !.data = Drop(d, len),
                                 !.buf = out \o r.ret.val.data,
                                 !.result = Ok(<<>>)]
               ELSE [same EXCEPT !.pc = "write",
                                 !.data = Drop(d, len),
                                 !.buf = out \o r.ret.val.data,
                                 !.result = NoResult]
          ELSE IF r.ret.kind \in {"Busy", "Unavailable"}
          THEN [same EXCEPT !.pc = "write", !.result = NoResult]
          ELSE same

\* the driver entering Continue on Pending as well as on Started
ste_step_start_lenient(ph, d, out, r) ==
  LET len == Min2(Len(d), MaxPayload)
      same == [pc |-> "done", phase |-> ph, data |-> d, buf |-> out, result |-> r.ret]
  IN IF r.panic THEN [same EXCEPT !.pc = "panic"]
     ELSE IF ph = "Start"
     THEN IF r.ret.tag = "Err" THEN same
          ELSE IF r.ret.val.status = "Finished"
          THEN [same EXCEPT !.data = Drop(d, len),
                            !.result = Err("TransferStatus", <<r.ret.val.status>>)]
          ELSE [same EXCEPT !.pc = "write", !.phase = "Continue",
                            !.data = Drop(d, len), !.result = NoResult]
     ELSE IF r.ret.tag = "Ok"
          THEN IF r.ret.val.status = "Finished"
               THEN [same EXCEPT !.data = Drop(d, len),
                                 !.buf = out \o r.ret.val.data,
                                 !.result = Ok(<<>>)]
               ELSE [same EXCEPT !.pc = "write",
                                 !.data = Drop(d, len),
                                 !.buf = out \o r.ret.val.data,
                                 !.result = NoResult]
          ELSE IF r.ret.kind = "Busy"
          THEN [same EXCEPT !.pc = "write", !.result = NoResult]
          ELSE same

\* the driver moving its cursor past a chunk the chip answered with Busy
ste_step_busy_advances(ph, d, out, r) ==
  LET len == Min2(Len(d), MaxPayload)
      same == [pc |-> "done", phase |-> ph, data |-> d, buf |-> out, result |-> r.ret]
  IN IF r.panic THEN [same EXCEPT !.pc = "panic"]
     ELSE IF ph = "Start"
     THEN IF r.ret.tag = "Err" THEN same
          ELSE IF r.ret.val.status # "Started"
          THEN [same EXCEPT !.data = Drop(d, len),
                            !.result = Err("TransferStatus", <<r.ret.val.status>>)]
          ELSE [same EXCEPT !.pc = "write", !.phase = "Continue",
                            !.data = Drop(d, len), !.result = NoResult]
     ELSE IF r.ret.tag = "Ok"
          THEN IF r.ret.val.status = "Finished"
               THEN [same EXCEPT !.data = Drop(d, len),
                                 !.buf = out \o r.ret.val.data,
                                 !.result = Ok(<<>>)]
               ELSE [same EXCEPT !.pc = "write",
                                 !.data = Drop(d, len),
                                 !.buf = out \o r.ret.val.data,
                                 !.result = NoResult]
          ELSE IF r.ret.kind = "Busy"
          THEN [same EXCEPT !.pc = "write", !.data = Drop(d, len), !.result = NoResult]
          ELSE same

\* ste_step leaving the input cursor where it is after a successful Continue exchange
ste_step_continue_keeps_cursor(ph, d, out, r) ==
  LET len == Min2(Len(d), MaxPayload)
      same == [pc |-> "done", phase |-> ph, data |-> d, buf |-> out, result |-> r.ret]
  IN IF r.panic THEN [same EXCEPT !.pc = "panic"]
     ELSE IF ph = "Start"
     THEN IF r.ret.tag = "Err" THEN same
          ELSE IF r.ret.val.status # "Started"
          THEN [same EXCEPT !.data = Drop(d, len),
                            !.result = Err("TransferStatus", <<r.ret.val.status>>)]
          ELSE [same EXCEPT !.pc = "write", !.phase = "Continue",
                            !.data = Drop(d, len), !.result = NoResult]
     ELSE IF r.ret.tag = "Ok"
          THEN IF r.ret.val.status = "Finished"
               THEN [same EXCEPT !.buf = out \o r.ret.val.data,
                                 !.result = Ok(<<>>)]
               ELSE [same EXCEPT !.pc = "write",
                                 !.buf = out \o r.ret.val.data,
                                 !.result = NoResult]
          ELSE IF r.ret.kind = "Busy"
          THEN [same EXCEPT !.pc = "write", !.result = NoResult]
          ELSE same

\* ste_step leaving the loop on any status other than Started (!= Started for == Finished)
ste_step_done_on_pending(ph, d, out, r) ==
  LET len == Min2(Len(d), MaxPayload)
      same == [pc |-> "done", phase |-> ph, data |-> d, buf |-> out, result |-> r.ret]
  IN IF r.panic THEN [same EXCEPT !.pc = "panic"]
     ELSE IF ph = "Start"
     THEN IF r.ret.tag = "Err" THEN same
          ELSE IF r.ret.val.status # "Started"
          THEN [same EXCEPT !.data = Drop(d, len),
                            !.result = Err("TransferStatus", <<r.ret.val.status>>)]
          ELSE [same EXCEPT !.pc = "write", !.phase = "Continue",
                            !.data = Drop(d, len), !.result = NoResult]
     ELSE IF r.ret.tag = "Ok"
          THEN IF r.ret.val.status # "Started"
               THEN [same EXCEPT !.data = Drop(d, len),
                                 !.buf = out \o r.ret.val.data,
                                 !.result = Ok(<<>>)]
               ELSE [same EXCEPT !.pc = "write",
                                 !.data = Drop(d, len),
                                 !.buf = out \o r.ret.val.data,
                                 !.result = NoResult]
          ELSE IF r.ret.kind = "Busy"
          THEN [same EXCEPT !.pc = "write", !.result = NoResult]
          ELSE same

\* ste_step without the Busy arm: Busy is returned like any other error
ste_step_busy_fatal(ph, d, out, r) ==
  LET len == Min2(Len(d), MaxPayload)
      same == [pc |-> "done", phase |-> ph, data |-> d, buf |-> out, result |-> r.ret]
  IN IF r.panic THEN [same EXCEPT !.pc = "panic"]
     ELSE IF ph = "Start"
     THEN IF r.ret.tag = "Err" THEN same
          ELSE IF r.ret.val.status # "Started"
          THEN [same EXCEPT !.data = Drop(d, len),
                            !.result = Err("TransferStatus", <<r.ret.val.status>>)]
          ELSE [same EXCEPT !.pc = "write", !.phase = "Continue",
                            !.data = Drop(d, len), !.result = NoResult]
     ELSE IF r.ret.tag = "Ok"
          THEN IF r.ret.val.status = "Finished"
               THEN [same EXCEPT !.data = Drop(d, len),
                                 !.buf = out \o r.ret.val.data,
                                 !.result = Ok(<<>>)]
               ELSE [same EXCEPT !.pc = "write",
                                 !.data = Drop(d, len),
                                 !.buf = out \o r.ret.val.data,
                                 !.result = NoResult]
          ELSE same

\* ste_step leaving the loop once the input is exhausted, Finished or not
ste_step_stops_when_drained(ph, d, out, r) ==
  LET len == Min2(Len(d), MaxPayload)
      same == [pc |-> "done", phase |-> ph, data |-> d, buf |-> out, result |-> r.ret]
  IN IF r.panic THEN [same EXCEPT !.pc = "panic"]
     ELSE IF ph = "Start"
     THEN IF r.ret.tag = "Err" THEN same
          ELSE IF r.ret.val.status # "Started"
          THEN [same EXCEPT !.data = Drop(d, len),
                            !.result = Err("TransferStatus", <<r.ret.val.status>>)]
          ELSE [same EXCEPT !.pc = "write", !.phase = "Continue",
                            !.data = Drop(d, len), !.result = NoResult]
     ELSE IF r.ret.tag = "Ok"
          THEN IF r.ret.val.status = "Finished" \/ Drop(d, len) = <<>>
               THEN [same EXCEPT !.data = Drop(d, len),
                                 !.buf = out \o r.ret.val.data,
                                 !.result = Ok(<<>>)]
               ELSE [same EXCEPT !.pc = "write",
                                 !.data = Drop(d, len),
                                 !.buf = out \o r.ret.val.data,
                                 !.result = NoResult]
          ELSE IF r.ret.kind = "Busy"
          THEN [same EXCEPT !.pc = "write", !.result = NoResult]
          ELSE same

\* ste_step extending the output with the data of the Start exchange too
ste_step_start_appends(ph, d, out, r) ==
  LET len == Min2(Len(d), MaxPayload)
      same == [pc |-> "done", phase |-> ph, data |-> d, buf |-> out, result |-> r.ret]
  IN IF r.panic THEN [same EXCEPT !.pc = "panic"]
     ELSE IF ph = "Start"
     THEN IF r.ret.tag = "Err" THEN same
          ELSE IF r.ret.val.status # "Started"
          THEN [same EXCEPT !.data = Drop(d, len),
                            !.result = Err("TransferStatus", <<r.ret.val.status>>)]
          ELSE [same EXCEPT !.pc = "write", !.phase = "Continue",
                            !.data = Drop(d, len),
                            !.buf = out \o r.ret.val.data, !.result = NoResult]
     ELSE IF r.ret.tag = "Ok"
          THEN IF r.ret.val.status = "Finished"
               THEN [same EXCEPT !.data = Drop(d, len),
                                 !.buf = out \o r.ret.val.data,
                                 !.result = Ok(<<>>)]
               ELSE [same EXCEPT !.pc = "write",
                                 !.data = Drop(d, len),
                                 !.buf = out \o r.ret.val.data,
                                 !.result = NoResult]
          ELSE IF r.ret.kind = "Busy"
          THEN [same EXCEPT !.pc = "write", !.result = NoResult]
          ELSE same

\* ste_step without `data = &data[len..]` after a Started first exchange
ste_step_start_keeps_cursor(ph, d, out, r) ==
  LET len == Min2(Len(d), MaxPayload)
      same == [pc |-> "done", phase |-> ph, data |-> d, buf |-> out, result |-> r.ret]
  IN IF r.panic THEN [same EXCEPT !.pc = "panic"]
     ELSE IF ph = "Start"
     THEN IF r.ret.tag = "Err" THEN same
          ELSE IF r.ret.val.status # "Started"
          THEN [same EXCEPT !.data = Drop(d, len),
                            !.result = Err("TransferStatus", <<r.ret.val.status>>)]
          ELSE [same EXCEPT !.pc = "write", !.phase = "Continue",
                            !.result = NoResult]
     ELSE IF r.ret.tag = "Ok"
          THEN IF r.ret.val.status = "Finished"
               THEN [same EXCEPT !.data = Drop(d, len),
                                 !.buf = out \o r.ret.val.data,
                                 !.result = Ok(<<>>)]
               ELSE [same EXCEPT !.pc = "write",
                                 !.data = Drop(d, len),
                                 !.buf = out \o r.ret.val.data,
                                 !.result = NoResult]
          ELSE IF r.ret.kind = "Busy"
          THEN [same EXCEPT !.pc = "write", !.result = NoResult]
          ELSE same

\* ste_step without the `break` on Finished
ste_step_finished_ignored(ph, d, out, r) ==
  LET len == Min2(Len(d), MaxPayload)
      same == [pc |-> "done", phase |-> ph, data |-> d, buf |-> out, result |-> r.ret]
  IN IF r.panic THEN [same EXCEPT !.pc = "panic"]
     ELSE IF ph = "Start"
     THEN IF r.ret.tag = "Err" THEN same
          ELSE IF r.ret.val.status # "Started"
          THEN [same EXCEPT !.data = Drop(d, len),
                            !.result = Err("TransferStatus", <<r.ret.val.status>>)]
          ELSE [same EXCEPT !.pc = "write", !.phase = "Continue",
                            !.data = Drop(d, len), !.result = NoResult]
     ELSE IF r.ret.tag = "Ok"
          THEN IF r.ret.val.status = "Finished"
               THEN [same EXCEPT !.pc = "write",
                                 !.data = Drop(d, len),
                                 !.buf = out \o r.ret.val.data,
                                 !.result = NoResult]
               ELSE [same EXCEPT !.pc = "write",
                                 !.data = Drop(d, len),
                                 !.buf = out \o r.ret.val.data,
                                 !.result = NoResult]
          ELSE IF r.ret.kind = "Busy"
          THEN [same EXCEPT !.pc = "write", !.result = NoResult]
          ELSE same

\* ste_step with `buf.clear()` before it returns an error from the loop
ste_step_clears_on_error(ph, d, out, r) ==
  LET len == Min2(Len(d), MaxPayload)
      same == [pc |-> "done", phase |-> ph, data |-> d, buf |-> out, result |-> r.ret]
  IN IF r.panic THEN [same EXCEPT !.pc = "panic"]
     ELSE IF ph = "Start"
     THEN IF r.ret.tag = "Err" THEN same
          ELSE IF r.ret.val.status # "Started"
          THEN [same EXCEPT !.data = Drop(d, len),
                            !.result = Err("TransferStatus", <<r.ret.val.status>>)]
          ELSE [same EXCEPT !.pc = "write", !.phase = "Continue",
                            !.data = Drop(d, len), !.result = NoResult]
     ELSE IF r.ret.tag = "Ok"
          THEN IF r.ret.val.status = "Finished"
               THEN [same EXCEPT !.data = Drop(d, len),
                                 !.buf = out \o r.ret.val.data,
                                 !.result = Ok(<<>>)]
               ELSE [same EXCEPT !.pc = "write",
                                 !.data = Drop(d, len),
                                 !.buf = out \o r.ret.val.data,
                                 !.result = NoResult]
          ELSE IF r.ret.kind = "Busy"
          THEN [same EXCEPT !.pc = "write", !.result = NoResult]
          ELSE [same EXCEPT !.buf = <<>>]

\* one pass of the driver over the outcome `r` ([panic, ret]) of its
\* spi_transfer call: what it does to its cursor and to the output, and
\* whether it goes round again ("write") or returns ("done")
ste_step(ph, d, out, r) ==
  LET len == Min2(Len(d), MaxPayload)
      same == [pc |-> "done", phase |-> ph, data |-> d, buf |-> out, result |-> r.ret]
  IN IF r.panic THEN [same EXCEPT !.pc = "panic"]
     ELSE IF ph = "Start"
     THEN IF r.ret.tag = "Err" THEN same
          ELSE IF r.ret.val.status # "Started"
          THEN [same EXCEPT !.data = Drop(d, len),
                            !.result = Err("TransferStatus", <<r.ret.val.status>>)]
          ELSE [same EXCEPT !.pc = "write", !.phase = "Continue",
                            !.data = Drop(d, len), !.result = NoResult]
     ELSE IF r.ret.tag = "Ok"
          THEN IF r.ret.val.status = "Finished"
               THEN [same EXCEPT !.data = Drop(d, len),
                                 !.buf = out \o r.ret.val.data,
                                 !.result = Ok(<<>>)]
               ELSE [same EXCEPT !.pc = "write",
                                 !.data = Drop(d, len),
                                 !.buf = out \o r.ret.val.data,
                                 !.result = NoResult]
          ELSE IF r.ret.kind = "Busy"
          THEN [same EXCEPT !.pc = "write", !.result = NoResult]
          ELSE same

---------------------------------------------------------------------------
(* The caller: the arguments the model draws                               *)

\* a payload of n bytes, all different; Payload(2) is the payload [0xaa, 0x55]
\* of examples/loopback.rs
Payload(n) == [i \in 1..n |-> (i * 171 + 255) % 256]

\* a name of n characters, each outside the Basic Multilingual Plane if astral
Name(n, astral) == [i \in 1..n |-> IF astral THEN 128512 + i ELSE 44032 + i]

Password == <<1, 2, 3, 4, 5, 6, 7, 8>>

ChipSettingsA ==
  [gp_mode |-> [i \in 0..8 |-> "Gpio"],
   default_gpio_value |-> 511, default_gpio_direction |-> 511,
   remote_wakeup |-> FALSE, interrupt_mode |-> "None", bus_release |-> TRUE,
   nvram_access_control |-> "None"]

ChipSettingsB ==
  [gp_mode |-> [i \in 0..8 |-> IF i % 3 = 0 THEN "ChipSelect"
                               ELSE IF i % 3 = 1 THEN "Dedicated" ELSE "Gpio"],
   default_gpio_value |-> 341, default_gpio_direction |-> 256,
   remote_wakeup |-> TRUE, interrupt_mode |-> "HighPulses", bus_release |-> FALSE,
   nvram_access_control |-> "Password"]

SampleChipSettings == {ChipSettingsA, ChipSettingsB}

\* SpiTransferSettings::default() and another value
SpiTransferSettingsA ==
  [bit_rate |-> 12000000, cs_idle |-> 511, cs_active |-> 0,
   delay_cs_to_data |-> 0, delay_last_data_to_cs |-> 0, delay_between_data |-> 0,
   bytes_per_tx |-> 4, spi_mode |-> "Mode0"]

SpiTransferSettingsB ==
  [bit_rate |-> 1000, cs_idle |-> 510, cs_active |-> 257,
   delay_cs_to_data |-> 258, delay_last_data_to_cs |-> 65535, delay_between_data |-> 4660,
   bytes_per_tx |-> 2, spi_mode |-> "Mode3"]

SampleSpiTransferSettings == {SpiTransferSettingsA, SpiTransferSettingsB}

\* UsbParameters::default() and another value
SampleUsbParameters ==
  {[vid |-> 1240, pid |-> 222, power_option |-> "HostPowered",
    remote_wakeup_capable |-> FALSE, requested_current |-> 50],
   [vid |-> 65244, pid |-> 4660, power_option |-> "SelfPowered",
    remote_wakeup_capable |-> TRUE, requested_current |-> 255]}

\* the string of test_encode_utf16_to_buffer
TestName == <<48372, 46972, 49353, 32, 44256, 50577, 51060>>

SampleNames ==
  {Name(0, FALSE), Name(2, FALSE), Name(29, FALSE), Name(30, FALSE),
   Name(14, TRUE) \o Name(1, FALSE), Name(15, TRUE), TestName}

GetterOps ==
  {"get_chip_status", "cancel_spi_transfer", "get_interrupt_event_counter",
   "reset_interrupt_event_counter", "get_chip_settings", "get_gpio_value",
   "get_gpio_direction", "get_spi_transfer_settings",
   "get_nvram_spi_transfer_settings", "get_nvram_chip_settings",
   "get_nvram_usb_parameters", "get_nvram_usb_product_name",
   "get_nvram_usb_vendor_name"}

\* the calls the caller may make, grouped by the type of their argument
CallGroups ==
  {"getters", "chip_settings", "gpio", "spi_settings", "spi_transfer", "read_eeprom",
   "write_eeprom", "nvram_chip_settings", "usb_parameters", "names", "password",
   "bus_release", "spi_transfer_to_end"}

CallGroup(g) ==
  CASE g = "getters" -> [op : GetterOps, arg : {<<>>}]
    [] g = "chip_settings" -> [op : {"set_chip_settings"}, arg : SampleChipSettings]
    [] g = "gpio" -> [op : {"set_gpio_value", "set_gpio_direction"}, arg : {0, 341, 511}]
    [] g = "spi_settings" ->
         [op : {"set_spi_transfer_settings", "set_nvram_spi_transfer_settings"},
          arg : SampleSpiTransferSettings]
    [] g = "spi_transfer" -> [op : {"spi_transfer"}, arg : {Payload(n) : n \in {0, 2, 60, 61}}]
    [] g = "read_eeprom" -> [op : {"read_eeprom"}, arg : {0, 255}]
    [] g = "write_eeprom" -> [op : {"write_eeprom"}, arg : {<<0, 170>>, <<255, 85>>}]
    [] g = "nvram_chip_settings" ->
         [op : {"set_nvram_chip_settings"},
          arg : [settings : SampleChipSettings, password : {<<>>, Password}]]
    [] g = "usb_parameters" -> [op : {"set_nvram_usb_parameters"}, arg : SampleUsbParameters]
    [] g = "names" ->
         [op : {"set_nvram_usb_product_name", "set_nvram_usb_vendor_name"}, arg : SampleNames]
    [] g = "password" -> [op : {"send_access_password"}, arg : {Password}]
    [] g = "bus_release" -> [op : {"request_bus_release"}, arg : {TRUE, FALSE}]
    [] g = "spi_transfer_to_end" ->
         [op : {"spi_transfer_to_end"},
          arg : [data : {Payload(n) : n \in {0, 2, 60, 61, 121}}, buf : {<<>>, <<7>>}]]

---------------------------------------------------------------------------
(* The chip and the transport: the response frames the model draws         *)

\* a response with `bytes` from offset 2 on (bytes 0 and 1 are set per response)
T(bytes) == CopyFromSlice(ZeroBuffer, 2, bytes)

ChipSettingsFrame(s) == ChipSettings_write_to_buffer(s, ZeroBuffer)
SpiSettingsFrame(s) == SpiTransferSettings_write_to_buffer(s, ZeroBuffer)

\* a USB-parameters response: vid, pid at 12..15, flags at 29, current at 30
UsbFrame(vid, pid, flags, current) ==
  [ZeroBuffer EXCEPT ![12] = vid % 256, ![13] = vid \div 256,
                     ![14] = pid % 256, ![15] = pid \div 256,
                     ![29] = flags, ![30] = current]

\* a name response: length byte, marker, UTF-16LE code units
NameFrame(len_byte, units) ==
  encode_units([ZeroBuffer EXCEPT ![4] = len_byte, ![5] = 3], 6, units)

\* an SPI transfer response: received length, transfer status, received bytes
SpiFrame(miso_len, status) == CopyFromSlice(T(<<miso_len, status>>), 4, Payload(60))

WithSub(seq, sub) == [k \in 1..Len(seq) |-> [seq[k] EXCEPT ![2] = sub]]

\* the payloads the chip may answer operation c with; the first is also sent
\* with every failure status, the second with Unavailable and Busy, the last
\* with Busy and AccessDenied
Templates(c) ==
  CASE c.op \in {"get_chip_status", "cancel_spi_transfer"} ->
         <<T(<<1, 2, 42, 1>>), T(<<0, 1, 79, 0>>), T(<<2, 0, 0, 0>>),
           T(<<0, 3, 0, 0>>), T(<<0, 0, 5, 2>>)>>
    [] c.op \in {"get_interrupt_event_counter", "reset_interrupt_event_counter"} ->
         <<T(<<0, 0, 170, 85>>), T(<<0, 0, 0, 0>>)>>
    [] c.op \in {"get_chip_settings", "get_nvram_chip_settings"} ->
         LET a == ChipSettingsFrame(ChipSettingsA)
             b == ChipSettingsFrame(ChipSettingsB)
             all == <<b, [b EXCEPT ![7] = 3], a, [a EXCEPT ![14] = 255, ![16] = 254],
                      [b EXCEPT ![17] = 27], [b EXCEPT ![18] = 65],
                      [b EXCEPT ![12] = 255, ![17] = 14]>>
         IN IF c.op = "get_chip_settings" THEN all
            ELSE WithSub(all, 32) \o <<a>>
    [] c.op \in {"get_gpio_value", "get_gpio_direction"} ->
         <<T(<<0, 0, 85, 1>>), T(<<0, 0, 255, 254>>), T(<<0, 0, 0, 0>>)>>
    [] c.op \in {"get_spi_transfer_settings", "get_nvram_spi_transfer_settings"} ->
         LET a == SpiSettingsFrame(SpiTransferSettingsA)
             b == SpiSettingsFrame(SpiTransferSettingsB)
             all == <<b, [b EXCEPT ![20] = 4], a, [b EXCEPT ![9] = 255, ![11] = 254]>>
         IN IF c.op = "get_spi_transfer_settings" THEN all
            ELSE WithSub(all, 16) \o <<a>>
    [] c.op = "spi_transfer" ->
         <<SpiFrame(2, 32), SpiFrame(61, 0), SpiFrame(0, 32), SpiFrame(0, 48),
           SpiFrame(2, 48), SpiFrame(0, 16), SpiFrame(2, 16), SpiFrame(60, 16),
           SpiFrame(61, 16), SpiFrame(2, 0)>>
    [] c.op = "read_eeprom" ->
         <<T(<<c.arg, 90>>), T(<<(c.arg + 1) % 256, 90>>)>>
    [] c.op = "get_nvram_usb_parameters" ->
         WithSub(<<UsbFrame(1240, 222, 128, 50), UsbFrame(65244, 4660, 0, 9),
                   UsbFrame(65244, 4660, 96, 255), UsbFrame(1, 2, 192, 3),
                   UsbFrame(1, 2, 159, 3)>>, 48)
         \o <<UsbFrame(1240, 222, 128, 50)>>
    [] c.op \in {"get_nvram_usb_product_name", "get_nvram_usb_vendor_name"} ->
         WithSub(<<NameFrame(6, <<44033, 44034>>), NameFrame(1, <<>>),
                   NameFrame(2, <<>>), NameFrame(0, <<>>), NameFrame(5, <<65, 66>>),
                   NameFrame(60, encode_utf16(Name(29, FALSE))),
                   NameFrame(61, encode_utf16(Name(29, FALSE))),
                   NameFrame(62, encode_utf16(Name(29, FALSE))),
                   NameFrame(255, <<>>),
                   NameFrame(8, <<55357, 56832, 55357, 65>>)>>, SubCode(c.op))
         \o <<NameFrame(6, <<44033, 44034>>)>>
    [] c.op \in SubOps -> <<T(<<SubCode(c.op)>>), T(<<0, 9, 9>>)>>
    [] OTHER -> <<T(<<0, 0>>), T(<<9, 9, 9>>)>>

\* status bytes other than success: the seven chip codes, their neighbours, one more
ErrorStatusBytes == {1, 246, 254} \cup (247..253)

\* every response frame the chip may send to operation c
DeviceResponses(c) ==
  LET t == Templates(c)
      code == OpCode(c.op)
  IN {[t[k] EXCEPT ![0] = code, ![1] = 0] : k \in 1..Len(t)}
     \cup {[t[1] EXCEPT ![0] = code, ![1] = st] : st \in ErrorStatusBytes}
     \cup {[t[2] EXCEPT ![0] = code, ![1] = st] : st \in {247, 248}}
     \cup {[t[Len(t)] EXCEPT ![0] = code, ![1] = st] : st \in {248, 251}}
     \cup {[t[1] EXCEPT ![0] = (code + 1) % 256, ![1] = st] : st \in {0, 248}}

\* what a failed read_exact may leave in the buffer `old`: nothing new, or
\* all but the last byte of the frame that was arriving
TornBuffers(c, old) ==
  LET f == [Templates(c)[1] EXCEPT ![0] = OpCode(c.op)]
  IN {old, [i \in 0..(BufferLen - 1) |-> IF i < BufferLen - 1 THEN f[i] ELSE old[i]]}

---------------------------------------------------------------------------
(* The state machine                                                       *)

NoCall == [op |-> "none", arg |-> <<>>]

\* Mcp2210::open
Init ==
  /\ pc = "idle"
  /\ call = NoCall
  /\ cmd = ZeroBuffer
  /\ response_buffer = ZeroBuffer
  /\ result = NoResult
  /\ ret_do_command = NoResult
  /\ phase = "-"
  /\ data = <<>>
  /\ buf = <<>>
  /\ nwrites = 0
  /\ nreads = 0

\* the engine call in progress: the operation itself, or the driver's chunk
Inner == IF call.op = "spi_transfer_to_end" THEN ChunkCall(data) ELSE call

\* the caller's position after the engine call in progress ended with r
After(r) ==
  IF call.op = "spi_transfer_to_end" THEN ste_step(phase, data, buf, r)
  ELSE [pc |-> IF r.panic THEN "panic" ELSE "done", phase |-> phase,
        data |-> data, buf |-> buf, result |-> r.ret]

\* the engine call ended with r: return, panic, or the driver's next chunk
Resume(r) ==
  LET a == After(r)
  IN /\ pc' = a.pc
     /\ phase' = a.phase
     /\ data' = a.data
     /\ buf' = a.buf
     /\ result' = a.result
     /\ cmd' = IF a.pc = "write" THEN CommandFrame(ChunkCall(a.data)) ELSE cmd

\* a public operation is called: validation, the frame, up to the write
Call(c) ==
  /\ pc = "idle"
  /\ call' = c
  /\ nwrites' = 0
  /\ nreads' = 0
  /\ ret_do_command' = NoResult
  /\ UNCHANGED response_buffer
  /\ LET chunked == c.op = "spi_transfer_to_end"
         inner == IF chunked THEN ChunkCall(c.arg.data) ELSE c
         v == Validate(inner)
     IN /\ phase' = IF chunked THEN "Start" ELSE "-"
        /\ data' = IF chunked THEN c.arg.data ELSE <<>>
        /\ buf' = IF chunked THEN c.arg.buf ELSE <<>>
        /\ IF v.tag = "Err"
           THEN pc' = "done" /\ result' = v /\ cmd' = ZeroBuffer
           ELSE IF FillerPanics(inner)
           THEN pc' = "panic" /\ result' = Panic("copy_from_slice") /\ cmd' = ZeroBuffer
           ELSE pc' = "write" /\ result' = NoResult /\ cmd' = CommandFrame(inner)

\* write_all(&cmd) succeeds
WriteOk ==
  /\ pc = "write"
  /\ nwrites < MaxExchanges
  /\ nwrites' = nwrites + 1
  /\ pc' = "read"
  /\ UNCHANGED <<call, cmd, response_buffer, result, ret_do_command, phase, data,
                 buf, nreads>>

\* write_all(&cmd) fails: do_command returns Io, no read
WriteFail ==
  /\ pc = "write"
  /\ nwrites < MaxExchanges
  /\ nwrites' = nwrites + 1
  /\ ret_do_command' = Err("Io", <<"write">>)
  /\ Resume(Returned(Err("Io", <<"write">>)))
  /\ UNCHANGED <<call, response_buffer, nreads>>

\* ReadOk with the operation decoding the buffer as it was before read_exact
ReadOk_decodes_stale(f) ==
  /\ pc = "read"
  /\ nreads' = nreads + 1
  /\ response_buffer' = f
  /\ ret_do_command' = do_command_result(OpCode(Inner.op), f)
  /\ Resume(Finish(Inner, response_buffer))
  /\ UNCHANGED <<call, nwrites>>

\* read_exact(&mut response_buffer) succeeds with frame f; the rest of the operation
ReadOk(f) ==
  /\ pc = "read"
  /\ nreads' = nreads + 1
  /\ response_buffer' = f
  /\ ret_do_command' = do_command_result(OpCode(Inner.op), f)
  /\ Resume(Finish(Inner, f))
  /\ UNCHANGED <<call, nwrites>>

\* read_exact fails: the buffer holds the bytes that arrived, do_command returns Io
ReadFail(torn) ==
  /\ pc = "read"
  /\ nreads' = nreads + 1
  /\ response_buffer' = torn
  /\ ret_do_command' = Err("Io", <<"read">>)
  /\ Resume(Returned(Err("Io", <<"read">>)))
  /\ UNCHANGED <<call, nwrites>>

\* the caller has taken the returned value; its frame, cursor and counters
\* are gone, the handle keeps its response buffer
Release ==
  /\ pc = "done"
  /\ pc' = "idle"
  /\ call' = NoCall
  /\ cmd' = ZeroBuffer
  /\ result' = NoResult
  /\ ret_do_command' = NoResult
  /\ phase' = "-"
  /\ data' = <<>>
  /\ buf' = <<>>
  /\ nwrites' = 0
  /\ nreads' = 0
  /\ UNCHANGED response_buffer

Next ==
  \/ \E g \in CallGroups : \E c \in CallGroup(g) : Call(c)
  \/ WriteOk
  \/ WriteFail
  \/ pc = "read" /\ \E f \in DeviceResponses(Inner) : ReadOk(f)
  \/ pc = "read" /\ \E torn \in TornBuffers(Inner, response_buffer) : ReadFail(torn)
  \/ Release

Spec == Init /\ [][Next]_vars

---------------------------------------------------------------------------
(* The typed record layer on its own (types.rs, utils.rs): a value is       *)
(* written into a buffer and read back, a raw buffer or a raw byte is       *)
(* decoded, a chip-status response is received.                             *)

RecordKinds == {"ChipSettings", "SpiTransferSettings", "UsbParameters"}
DecodedKinds == RecordKinds \cup {"ChipStatus"}
FieldKinds ==
  {"PinMode", "BusOwner", "InterruptMode", "NvramAccessControl", "SpiMode",
   "UsbPowerOption", "SpiTransferStatus", "bool"}

\* <record>::write_to_buffer
write_to_buffer(kind, v, b) ==
  CASE kind = "ChipSettings" -> ChipSettings_write_to_buffer(v, b)
    [] kind = "SpiTransferSettings" -> SpiTransferSettings_write_to_buffer(v, b)
    [] kind = "UsbParameters" -> UsbParameters_write_to_buffer(v, b)

\* <record>::from_buffer
from_buffer(kind, b) ==
  CASE kind = "ChipSettings" -> ChipSettings_from_buffer(b)
    [] kind = "SpiTransferSettings" -> SpiTransferSettings_from_buffer(b)
    [] kind = "UsbParameters" -> UsbParameters_from_buffer(b)
    [] kind = "ChipStatus" -> ChipStatus_from_buffer(b)

\* <enum>::from_u8 and as_bool
from_u8(kind, v) ==
  CASE kind = "PinMode" -> PinMode_from_u8(v)
    [] kind = "BusOwner" -> BusOwner_from_u8(v)
    [] kind = "InterruptMode" -> InterruptMode_from_u8(v)
    [] kind = "NvramAccessControl" -> NvramAccessControl_from_u8(v)
    [] kind = "SpiMode" -> SpiMode_from_u8(v)
    [] kind = "UsbPowerOption" -> UsbPowerOption_from_u8(v)
    [] kind = "SpiTransferStatus" -> SpiTransferStatus_from_u8(v)
    [] kind = "bool" -> as_bool(v)

PinModes == {"Gpio", "ChipSelect", "Dedicated"}
InterruptModes == {"None", "FallingEdges", "RisingEdges", "LowPulses", "HighPulses"}
NvramAccessControls == {"None", "Password", "PermanentlyLocked"}
SpiModes == {"Mode0", "Mode1", "Mode2", "Mode3"}

\* pin-mode assignments: all pins alike, one pin different, mixed
GpModeSamples ==
  {[i \in 0..8 |-> m] : m \in PinModes}
  \cup {[i \in 0..8 |-> IF i = j THEN m ELSE "Gpio"] :
          j \in 0..8, m \in {"ChipSelect", "Dedicated"}}
  \cup {ChipSettingsB.gp_mode}

\* ChipSettings values: every pin position with every mode, and every
\* combination of the packed flags with sample 9-bit sets
ChipSettingsDomain ==
  [gp_mode : GpModeSamples,
   default_gpio_value : {341}, default_gpio_direction : {256},
   remote_wakeup : {TRUE}, interrupt_mode : {"LowPulses"}, bus_release : {FALSE},
   nvram_access_control : {"PermanentlyLocked"}]
  \cup
  [gp_mode : {ChipSettingsA.gp_mode, ChipSettingsB.gp_mode},
   default_gpio_value : {0, 256, 341, 511}, default_gpio_direction : {0, 255, 511},
   remote_wakeup : BOOLEAN, interrupt_mode : InterruptModes, bus_release : BOOLEAN,
   nvram_access_control : NvramAccessControls]

\* SpiTransferSettings values; the bit rates stay below 2^31
SpiTransferSettingsDomain ==
  {[bit_rate |-> r, cs_idle |-> ci, cs_active |-> ca,
    delay_cs_to_data |-> d[1], delay_last_data_to_cs |-> d[2],
    delay_between_data |-> d[3], bytes_per_tx |-> n, spi_mode |-> m] :
     r \in {0, 1000, 12000000, 1144201745, 2147483647},
     ci \in {0, 256, 341, 511}, ca \in {0, 257, 511},
     d \in {<<0, 0, 0>>, <<258, 65535, 4660>>, <<65535, 1, 256>>},
     n \in {0, 4, 258, 65535}, m \in SpiModes}

UsbParametersDomain ==
  [vid : {0, 1240, 65244, 65535}, pid : {0, 222, 4660, 65535},
   power_option : {"SelfPowered", "HostPowered"},
   remote_wakeup_capable : BOOLEAN, requested_current : {0, 50, 255}]

Domain(kind) ==
  CASE kind = "ChipSettings" -> ChipSettingsDomain
    [] kind = "SpiTransferSettings" -> SpiTransferSettingsDomain
    [] kind = "UsbParameters" -> UsbParametersDomain

\* the buffers a value is written into: the zeroed frame, and one with every
\* byte set
FilledBuffer == [i \in 0..(BufferLen - 1) |-> 165]
StartBuffers == {ZeroBuffer, FilledBuffer}

\* raw buffers handed to from_buffer: enumerated bytes inside and outside
\* their sets, one at a time and together
RawFrames(kind) ==
  CASE kind = "ChipSettings" ->
         LET base == ChipSettingsFrame(ChipSettingsB)
         IN {[base EXCEPT ![4 + j] = v, ![17] = x, ![18] = y] :
               j \in 0..8, v \in {0, 2, 3, 255}, x \in {0, 9, 10, 14, 241},
               y \in {0, 64, 128, 65, 255}}
            \cup {[base EXCEPT ![17] = x] : x \in 0..255}
            \cup {[base EXCEPT ![18] = y] : y \in 0..255}
            \cup {[base EXCEPT ![13] = lo, ![14] = hi, ![15] = hi, ![16] = lo] :
                    lo \in {0, 1, 85, 254, 255}, hi \in {0, 1, 2, 254, 255}}
    [] kind = "SpiTransferSettings" ->
         {[SpiSettingsFrame(SpiTransferSettingsB) EXCEPT ![20] = m] : m \in 0..255}
         \cup {[SpiSettingsFrame(SpiTransferSettingsB)
                  EXCEPT ![8] = lo, ![9] = hi, ![10] = hi, ![11] = lo] :
                 lo \in {0, 1, 85, 254, 255}, hi \in {0, 1, 2, 254, 255}}
    [] kind = "UsbParameters" ->
         {UsbFrame(1240, 222, flags, 50) : flags \in 0..255}
    [] kind = "ChipStatus" ->
         {T(<<b2, b3, 42, b5>>) :
            b2 \in {0, 1, 2, 255}, b3 \in {0, 1, 2, 3, 255}, b5 \in {0, 1, 2, 255}}

\* the responses the chip may give to get_chip_status / cancel_spi_transfer:
\* every combination of sample bytes 2..5, accepted by the engine or not
StatusResponses(c) ==
  {[T(<<b2, b3, b4, b5>>) EXCEPT ![0] = h[1], ![1] = h[2]] :
     b2 \in {0, 1, 2, 255}, b3 \in {0, 1, 2, 3, 255}, b4 \in {0, 42, 79, 255},
     b5 \in {0, 1, 2, 255},
     h \in {<<OpCode(c.op), 0>>, <<OpCode(c.op), 248>>, <<(OpCode(c.op) + 1) % 256, 0>>}}

\* the responses the chip may give to get_gpio_value / get_gpio_direction:
\* sample 16-bit values in bytes 4 and 5, accepted by the engine or not
GpioResponses(c) ==
  {[T(<<0, 0, lo, hi>>) EXCEPT ![0] = h[1], ![1] = h[2]] :
     lo \in {0, 1, 85, 254, 255}, hi \in {0, 1, 2, 3, 128, 254, 255},
     h \in {<<OpCode(c.op), 0>>, <<OpCode(c.op), 248>>, <<(OpCode(c.op) + 1) % 256, 0>>}}

\* the getters whose response is received here, and their responses
CodecGetters ==
  {"get_chip_status", "cancel_spi_transfer", "get_gpio_value", "get_gpio_direction"}

CodecResponses(c) ==
  IF c.op \in {"get_gpio_value", "get_gpio_direction"} THEN GpioResponses(c)
  ELSE StatusResponses(c)

\* a caller holding a value and a buffer, a raw buffer, a raw byte, or
\* waiting for the response to a getter's request on a fresh handle
InitCodec ==
  /\ response_buffer = ZeroBuffer
  /\ result = NoResult
  /\ ret_do_command = NoResult
  /\ phase = "-"
  /\ data = <<>>
  /\ buf = <<>>
  /\ nreads = 0
  /\ \/ /\ pc = "value"
        /\ nwrites = 0
        /\ \E k \in RecordKinds : \E v \in Domain(k) : \E b \in StartBuffers :
             /\ call = [op |-> k, arg |-> [value |-> v, buf |-> b]]
             /\ cmd = b
     \/ /\ pc = "raw"
        /\ nwrites = 0
        /\ \E k \in DecodedKinds : \E b \in RawFrames(k) :
             /\ call = [op |-> k, arg |-> <<>>]
             /\ cmd = b
     \/ /\ pc = "byte"
        /\ nwrites = 0
        /\ \E k \in FieldKinds : \E v \in 0..255 :
             /\ call = [op |-> k, arg |-> v]
             /\ cmd = ZeroBuffer
     \/ /\ pc = "read"
        /\ nwrites = 1
        /\ \E o \in CodecGetters :
             /\ call = [op |-> o, arg |-> <<>>]
             /\ cmd = CommandFrame([op |-> o, arg |-> <<>>])

\* value.write_to_buffer(&mut buf)
Encode ==
  /\ pc = "value"
  /\ cmd' = write_to_buffer(call.op, call.arg.value, cmd)
  /\ pc' = "encoded"
  /\ UNCHANGED <<call, response_buffer, result, ret_do_command, phase, data, buf,
                 nwrites, nreads>>

\* <record>::from_buffer(&buf), on the buffer just written or on a raw one
Decode ==
  /\ pc \in {"encoded", "raw"}
  /\ result' = from_buffer(call.op, cmd)
  /\ pc' = IF pc = "encoded" THEN "roundtrip" ELSE "decoded"
  /\ UNCHANGED <<call, cmd, response_buffer, ret_do_command, phase, data, buf,
                 nwrites, nreads>>

\* <enum>::from_u8(v) / as_bool(v)
FromU8 ==
  /\ pc = "byte"
  /\ result' = from_u8(call.op, call.arg)
  /\ pc' = "field"
  /\ UNCHANGED <<call, cmd, response_buffer, ret_do_command, phase, data, buf,
                 nwrites, nreads>>

NextCodec ==
  \/ Encode
  \/ Decode
  \/ FromU8
  \/ pc = "read" /\ \E f \in CodecResponses(call) : ReadOk(f)

Codec == InitCodec /\ [][NextCodec]_vars

---------------------------------------------------------------------------
(* spi_transfer_to_end against a transport that never fails and a chip that *)
(* answers the first exchange Started and a later one Finished             *)

\* the answers of such a chip to the exchange in progress: Started to the
\* first; then Busy, Started, Pending or Finished, and Finished at the latest
\* to exchange number MaxExchanges
PatientResponses ==
  LET ok(n, st) == [SpiFrame(n, st) EXCEPT ![0] = 66, ![1] = 0]
      busy == [ZeroBuffer EXCEPT ![0] = 66, ![1] = 248]
      finished == {ok(n, 16) : n \in {0, 2, 60}}
  IN IF phase = "Start" THEN {ok(n, 32) : n \in {0, 2}}
     ELSE IF nreads + 1 < MaxExchanges
     THEN finished \cup {busy} \cup {ok(n, st) : n \in {0, 2}, st \in {32, 48}}
     ELSE finished

\* spi_transfer_to_end is called
LiveCall == \E c \in CallGroup("spi_transfer_to_end") : Call(c)

\* read_exact returns the chip's answer; the rest of the pass of the driver
LiveRead == pc = "read" /\ \E f \in PatientResponses : ReadOk(f)

LiveNext ==
  \/ LiveCall
  \/ WriteOk
  \/ LiveRead
  \/ Release

\* read_exact returns: weak fairness of LiveRead, WF_vars(LiveRead), with
\* ENABLED <<LiveRead>>_vars written out as the state predicate it is equal
\* to here, pc = "read" (a response is always there, and reading it moves pc)
ReadReturns == []<>(pc # "read") \/ []<><<LiveRead>>_vars

\* write_all and read_exact block and return: a call in progress goes on
LiveSpec == Init /\ [][LiveNext]_vars /\ WF_vars(WriteOk) /\ ReadReturns

---------------------------------------------------------------------------
(* Properties of the command/response engine                               *)

\* the last do_command invocation wrote its frame and read a whole response
ExchangeCompleted ==
  ret_do_command.tag \in {"Ok", "Err"} /\ ret_do_command.kind # "Io"

\* C1: when the response echoes the command code, do_command succeeds exactly
\* when response byte 1 is 0x00, and otherwise returns the error selected by
\* byte 1: 0xF7 Unavailable, 0xF8 Busy, 0xF9 UnknownCommandCode, 0xFA
\* EepromWrite, 0xFB AccessDenied, 0xFC AccessRejected, 0xFD AccessDeniedRetry,
\* any other value v UnknownErrorCode(v).
C1_StatusByteSelectsResult ==
  (ExchangeCompleted /\ response_buffer[0] = cmd[0]) =>
    LET st == response_buffer[1]
        r == ret_do_command
    IN /\ (r.tag = "Ok") <=> (st = 0)
       /\ st = 247 => r.kind = "Unavailable"
       /\ st = 248 => r.kind = "Busy"
       /\ st = 249 => r.kind = "UnknownCommandCode"
       /\ st = 250 => r.kind = "EepromWrite"
       /\ st = 251 => r.kind = "AccessDenied"
       /\ st = 252 => r.kind = "AccessRejected"
       /\ st = 253 => r.kind = "AccessDeniedRetry"
       /\ (st # 0 /\ (st < 247 \/ st > 253)) =>
            (r.kind = "UnknownErrorCode" /\ r.args = <<st>>)

C1_Witness ==
  /\ pc = "done"
  /\ response_buffer[0] = cmd[0]
  /\ response_buffer[1] = 247
  /\ ret_do_command.kind = "Unavailable"

\* C2: when the exchange completes and response byte 0 differs from the
\* requested command code, do_command returns CommandCode{expected: the
\* requested code, actual: response byte 0} whatever the status byte is, and
\* the operation returns that error.
C2_MismatchTakesPrecedence ==
  (ExchangeCompleted /\ response_buffer[0] # cmd[0]) =>
    /\ ret_do_command = Err("CommandCode", <<cmd[0], response_buffer[0]>>)
    /\ pc = "done"
    /\ result = ret_do_command

C2_Witness ==
  /\ pc = "done"
  /\ ExchangeCompleted
  /\ response_buffer[0] # cmd[0]
  /\ response_buffer[1] = 248
  /\ result.kind = "CommandCode"

\* C3: do_sub_command puts the sub-command code into command byte 1, returns
\* a command-level failure (I/O, command-code mismatch, non-zero status) as it
\* is, and otherwise fails with SubCommandCode{expected, actual} exactly when
\* response byte 2 differs from the sub-command code.
C3_SubCommandCheckedAfterCommand ==
  (call.op \in SubOps /\ pc \in {"write", "read", "done", "panic"} /\ result.kind # "StringSize") =>
    /\ cmd[0] = OpCode(call.op)
    /\ cmd[1] = SubCode(call.op)
    /\ (ret_do_command.tag = "Err") => (pc = "done" /\ result = ret_do_command)
    /\ (ret_do_command.tag = "Ok") =>
         /\ (result.kind = "SubCommandCode") <=> (response_buffer[2] # cmd[1])
         /\ (result.kind = "SubCommandCode") =>
              (pc = "done" /\ result = Err("SubCommandCode", <<cmd[1], response_buffer[2]>>))

C3_Witness ==
  /\ call.op = "set_nvram_chip_settings"
  /\ pc = "done"
  /\ ret_do_command.tag = "Ok"
  /\ response_buffer[2] # 32
  /\ result.kind = "SubCommandCode"

\* C4: every single-frame public operation whose inputs pass validation ends
\* by returning, after exactly one write of a command frame followed by
\* exactly one read of a response (one write and no read when the write
\* fails); a read is only ever outstanding after a write, one at a time.
C4_OneWriteThenOneRead ==
  /\ nreads <= nwrites /\ nwrites <= nreads + 1
  /\ (pc = "read") <=> (nwrites = nreads + 1 /\ ret_do_command.kind # "Io")
  /\ (call.op \notin {"none", "spi_transfer_to_end"}
        /\ pc \in {"done", "panic"} /\ result.kind \notin {"PayloadSize", "StringSize"}) =>
       /\ pc = "done"
       /\ nwrites = 1
       /\ nreads = IF ret_do_command = Err("Io", <<"write">>) THEN 0 ELSE 1

\* C5: a transport failure on the write or on the read of an exchange ends
\* the call with the Io error: the exchange is not retried, and after a
\* failed write no read is attempted.
C5_TransportFailureIsReturned ==
  (ret_do_command.kind = "Io") =>
    /\ pc = "done"
    /\ result = ret_do_command
    /\ result.tag = "Err"
    /\ (ret_do_command.args = <<"write">>) => (nreads = nwrites - 1)
    /\ (ret_do_command.args = <<"read">>) => (nreads = nwrites)

C5_Witness ==
  /\ call.op = "spi_transfer_to_end"
  /\ phase = "Continue"
  /\ pc = "done"
  /\ ret_do_command = Err("Io", <<"write">>)
  /\ nwrites = 2
  /\ nreads = 1

\* C6: spi_transfer with a payload of more than 60 bytes returns
\* PayloadSize(length) without a write or a read; with a payload of n <= 60
\* bytes its frame has byte 0 = 0x42, byte 1 = n and the payload at 4..4+n.
C6_SpiTransferPayloadLimit ==
  (call.op = "spi_transfer") =>
    LET n == Len(call.arg)
    IN IF n > 60
       THEN /\ pc = "done"
            /\ result = Err("PayloadSize", <<n>>)
            /\ nwrites = 0
            /\ nreads = 0
       ELSE /\ result.kind # "PayloadSize"
            /\ cmd[0] = 66
            /\ cmd[1] = n
            /\ \A i \in 1..n : cmd[3 + i] = call.arg[i]

C6_Witness ==
  /\ call.op = "spi_transfer"
  /\ Len(call.arg) = 61
  /\ pc = "done"
  /\ result.kind = "PayloadSize"

\* the UTF-16 length of a string: two code units for a character beyond U+FFFF
RECURSIVE CodeUnits(_)
CodeUnits(str) ==
  IF str = <<>> THEN 0
  ELSE (IF Head(str) > 65535 THEN 2 ELSE 1) + CodeUnits(Tail(str))

\* C7: set_nvram_usb_product_name and set_nvram_usb_vendor_name return
\* StringSize(count) for a name of more than 29 UTF-16 code units, without a
\* write or a read; a name of at most 29 code units is not rejected.
C7_NameLengthLimit ==
  (call.op \in {"set_nvram_usb_product_name", "set_nvram_usb_vendor_name"}) =>
    LET n == CodeUnits(call.arg)
    IN IF n > 29
       THEN /\ pc = "done"
            /\ result = Err("StringSize", <<n>>)
            /\ nwrites = 0
            /\ nreads = 0
       ELSE /\ result.kind # "StringSize"
            /\ pc = "done" => nwrites = 1

C7_Witness ==
  /\ call.op = "set_nvram_usb_vendor_name"
  /\ Len(call.arg) = 15
  /\ pc = "done"
  /\ result = Err("StringSize", <<30>>)

---------------------------------------------------------------------------
(* Properties of the chunked driver                                        *)

\* C8: the first exchange of spi_transfer_to_end carries the first
\* min(len, 60) bytes of the input; when it succeeds with a transfer status
\* other than Started the call fails with TransferStatus(that status) and
\* starts no further exchange.
C8_StartRequiresStarted ==
  (call.op = "spi_transfer_to_end") =>
    /\ (phase = "Start" /\ pc \in {"write", "read"}) =>
         LET n == IF Len(call.arg.data) < 60 THEN Len(call.arg.data) ELSE 60
         IN /\ cmd[0] = 66
            /\ cmd[1] = n
            /\ \A i \in 1..n : cmd[3 + i] = call.arg.data[i]
    /\ (nreads = 1 /\ ret_do_command.tag = "Ok" /\ response_buffer[2] <= 60
          /\ response_buffer[3] \in {16, 48}) =>
         /\ pc = "done"
         /\ nwrites = 1
         /\ result = Err("TransferStatus",
                         <<IF response_buffer[3] = 16 THEN "Finished" ELSE "Pending">>)

C8_Witness ==
  /\ call.op = "spi_transfer_to_end"
  /\ Len(call.arg.data) = 121
  /\ pc = "done"
  /\ nreads = 1
  /\ response_buffer[3] = 48
  /\ result = Err("TransferStatus", <<"Pending">>)

\* C9: in the Continue phase, when the chip answers an exchange with the Busy
\* status the driver leaves its input cursor and the output as they are,
\* returns nothing, and the frame of its next exchange is the frame it just
\* sent.
C9_BusyResendsSameChunk ==
  [][(/\ call.op = "spi_transfer_to_end"
      /\ phase = "Continue"
      /\ pc = "read"
      /\ nreads' = nreads + 1
      /\ ret_do_command'.kind # "Io"
      /\ response_buffer'[0] = 66
      /\ response_buffer'[1] = 248)
     => (/\ pc' = "write"
         /\ phase' = "Continue"
         /\ data' = data
         /\ buf' = buf
         /\ cmd' = cmd
         /\ result'.tag = "None")]_vars

C9_Witness ==
  /\ call.op = "spi_transfer_to_end"
  /\ phase = "Continue"
  /\ pc = "write"
  /\ nreads = 2
  /\ response_buffer[1] = 248
  /\ ret_do_command.kind = "Busy"
  /\ Len(data) = 61
  /\ cmd[1] = 60

\* C10: in the Continue phase any error other than Busy (I/O, command-code
\* mismatch, a chip status other than Busy, an unknown status code, an
\* invalid transfer-status byte) ends the call at once with that error.
C10_OtherErrorsAbort ==
  (call.op = "spi_transfer_to_end" /\ phase = "Continue") =>
    /\ (ret_do_command.tag = "Err" /\ ret_do_command.kind # "Busy") =>
         (pc = "done" /\ result = ret_do_command)
    /\ (nreads >= 2 /\ ret_do_command.tag = "Ok" /\ response_buffer[2] <= 60
          /\ response_buffer[3] \notin {16, 32, 48}) =>
         (pc = "done" /\ result.tag = "Err" /\ result.kind = "InvalidResponse")

C10_Witness ==
  /\ call.op = "spi_transfer_to_end"
  /\ phase = "Continue"
  /\ pc = "done"
  /\ nreads = 3
  /\ ret_do_command.kind = "Unavailable"
  /\ result = Err("Unavailable", <<>>)

\* a step in which an exchange of the Continue phase succeeds: the frame is
\* written, a response with the echoed code and status 0x00 is read, its data
\* length fits the frame and its transfer status is one of the three known
ContinueExchangeSucceeds ==
  /\ call.op = "spi_transfer_to_end"
  /\ phase = "Continue"
  /\ pc = "read"
  /\ nreads' = nreads + 1
  /\ ret_do_command'.tag = "Ok"
  /\ response_buffer'[2] <= 60
  /\ response_buffer'[3] \in {16, 32, 48}

\* C11: in the Continue phase every successful exchange appends the data
\* returned by that exchange (response bytes 4..4+n, n = response byte 2) to
\* the end of the output, and moves the input cursor forward by exactly the
\* length of the chunk just sent (command byte 1 = min(rest, 60)).
C11_ContinueAppendsAndAdvances ==
  [][ContinueExchangeSucceeds
     => (/\ buf' = buf \o Slice(response_buffer', 4, response_buffer'[2])
         /\ cmd[1] = Min2(Len(data), 60)
         /\ Len(data') = Len(data) - cmd[1]
         /\ data' = SubSeq(data, cmd[1] + 1, Len(data)))]_vars

C11_Witness ==
  /\ call.op = "spi_transfer_to_end"
  /\ Len(call.arg.data) = 121
  /\ call.arg.buf = <<7>>
  /\ phase = "Continue"
  /\ pc = "write"
  /\ nreads = 2
  /\ Len(data) = 1
  /\ buf = <<7, 170, 85>>

\* C12: spi_transfer_to_end returns Ok exactly in the step of the first
\* successful Continue exchange whose transfer status is Finished, with that
\* exchange's data appended, and starts no exchange after it; a successful
\* Continue exchange with status Started or Pending returns nothing and the
\* driver goes on to the next exchange in Continue.
C12_OkExactlyAtFinished ==
  [][/\ ContinueExchangeSucceeds =>
          IF response_buffer'[3] = 16
          THEN /\ pc' = "done"
               /\ result' = Ok(<<>>)
               /\ buf' = buf \o Slice(response_buffer', 4, response_buffer'[2])
          ELSE /\ pc' = "write"
               /\ phase' = "Continue"
               /\ result'.tag = "None"
     /\ (call'.op = "spi_transfer_to_end" /\ result'.tag = "Ok" /\ result.tag # "Ok") =>
          (ContinueExchangeSucceeds /\ response_buffer'[3] = 16)
     /\ (call.op = "spi_transfer_to_end" /\ pc = "done") =>
          (pc' = "idle" /\ nwrites' = 0 /\ nreads' = 0)]_vars

C12_Witness ==
  /\ call.op = "spi_transfer_to_end"
  /\ pc = "done"
  /\ result = Ok(<<>>)
  /\ nreads = 4
  /\ response_buffer[3] = 16
  /\ Len(call.arg.data) = 121
  /\ data = <<>>

\* C13 as claimed: spi_transfer_to_end never returns the Busy error, whichever
\* exchange of the transfer the chip answers with Busy, the first included.
C13_BusyNeverReturned ==
  (call.op = "spi_transfer_to_end" /\ pc = "done") => result.kind # "Busy"

\* C13 as amended: a Busy status on an exchange of the Continue phase is
\* retried and never returned; a Busy status on the first exchange is not
\* retried: the call returns Busy after that one exchange.
C13_BusyReturnedOnlyByStart ==
  (call.op = "spi_transfer_to_end") =>
    /\ (pc = "done" /\ result.kind = "Busy") =>
         (phase = "Start" /\ nwrites = 1 /\ nreads = 1 /\ response_buffer[1] = 248)
    /\ (phase = "Start" /\ ret_do_command.kind = "Busy") =>
         (pc = "done" /\ result = Err("Busy", <<>>) /\ nwrites = 1)
    /\ (phase = "Continue" /\ ret_do_command.kind = "Busy") =>
         (pc \in {"write", "read"} /\ result.tag = "None")

C13_Witness ==
  /\ call.op = "spi_transfer_to_end"
  /\ phase = "Start"
  /\ pc = "done"
  /\ nreads = 1
  /\ response_buffer[0] = 66
  /\ response_buffer[1] = 248
  /\ result = Err("Busy", <<>>)

\* C14: the loop has no retry bound: however many exchanges the call has
\* made, a Continue exchange answered with Busy, or answered successfully
\* with a transfer status other than Finished, does not end the call: the
\* driver starts another exchange; the call ends in Continue only on
\* Finished or on an error other than Busy.
C14_NoRetryBound ==
  [][/\ (/\ call.op = "spi_transfer_to_end"
         /\ phase = "Continue"
         /\ pc = "read"
         /\ nreads' = nreads + 1
         /\ ret_do_command'.kind # "Io"
         /\ response_buffer'[0] = 66
         /\ \/ response_buffer'[1] = 248
            \/ /\ response_buffer'[1] = 0
               /\ response_buffer'[2] <= 60
               /\ response_buffer'[3] \in {32, 48})
        => (pc' = "write" /\ phase' = "Continue" /\ result'.tag = "None"
            /\ cmd'[0] = 66)
     /\ (call'.op = "spi_transfer_to_end" /\ phase' = "Continue" /\ pc' = "done") =>
          \/ (result'.tag = "Err" /\ result'.kind # "Busy")
          \/ (result' = Ok(<<>>) /\ response_buffer'[3] = 16)]_vars

C14_Witness ==
  /\ call.op = "spi_transfer_to_end"
  /\ phase = "Continue"
  /\ pc = "write"
  /\ nwrites = 4
  /\ nreads = 4
  /\ ret_do_command.kind = "Busy"
  /\ result.tag = "None"

\* C15: for a payload of at most 60 bytes and an output that is empty before
\* the call, when the first exchange reports Started and the second returns
\* the payload with status Finished, the call returns Ok with the output
\* holding exactly the payload bytes, in order.
C15_LoopbackAccumulatesPayload ==
  (/\ call.op = "spi_transfer_to_end"
   /\ call.arg.buf = <<>>
   /\ Len(call.arg.data) <= 60
   /\ nreads = 2
   /\ ret_do_command.tag = "Ok"
   /\ response_buffer[3] = 16
   /\ response_buffer[2] = Len(call.arg.data)
   /\ \A i \in 1..Len(call.arg.data) : response_buffer[3 + i] = call.arg.data[i])
  => (pc = "done" /\ result = Ok(<<>>) /\ buf = call.arg.data)

C15_Witness ==
  /\ call.op = "spi_transfer_to_end"
  /\ call.arg.data = <<170, 85>>
  /\ call.arg.buf = <<>>
  /\ pc = "done"
  /\ result = Ok(<<>>)
  /\ nreads = 2
  /\ buf = <<170, 85>>

---------------------------------------------------------------------------
(* Properties of the typed record layer (specification Codec)              *)

\* the value was written into the buffer and the buffer was read back
RoundTripOf(kind) == pc = "roundtrip" /\ call.op = kind

\* outside the bytes first..last the buffer is as it was before the write
OnlyBytesChanged(first, last) ==
  \A i \in 0..63 : (i < first \/ i > last) => cmd[i] = call.arg.buf[i]

\* C16 as claimed: for every UsbParameters value, from_buffer applied to a
\* zeroed buffer after write_to_buffer returns the original value.
C16_UsbParametersRoundTrip ==
  (RoundTripOf("UsbParameters") /\ call.arg.buf = ZeroBuffer) =>
    result = Ok(call.arg.value)

\* the buffer with the six bytes found at 4..9 placed where
\* UsbParameters::from_buffer reads: 12, 13, 14, 15, 29, 30
AtResponseOffsets(b) ==
  [i \in 0..63 |->
     CASE i \in 12..15 -> b[i - 8]
       [] i = 29 -> b[8]
       [] i = 30 -> b[9]
       [] OTHER -> 0]

\* C16 as amended: write_to_buffer stores a UsbParameters value in bytes 4
\* to 9 and changes no other byte; from_buffer reads bytes 12 to 15, 29 and
\* 30, so on the zeroed buffer after write_to_buffer it fails with an invalid
\* power_option (raw value 0); it returns a value equal to the original when
\* the six written bytes stand at the offsets it reads.
C16_UsbParametersLayouts ==
  (call.op = "UsbParameters" /\ pc \in {"encoded", "roundtrip"}) =>
    /\ OnlyBytesChanged(4, 9)
    /\ UsbParameters_from_buffer(AtResponseOffsets(cmd)) = Ok(call.arg.value)
    /\ (pc = "roundtrip" /\ call.arg.buf = ZeroBuffer) =>
         result = Err("String", <<"power_option", 0>>)

C16_Witness ==
  /\ RoundTripOf("UsbParameters")
  /\ call.arg.buf = ZeroBuffer
  /\ call.arg.value = [vid |-> 1240, pid |-> 222, power_option |-> "HostPowered",
                       remote_wakeup_capable |-> FALSE, requested_current |-> 50]
  /\ cmd[4] = 216 /\ cmd[5] = 4 /\ cmd[6] = 222 /\ cmd[8] = 128 /\ cmd[9] = 50
  /\ result.tag = "Err"

\* C17: for every ChipSettings value of the legal domain, from_buffer applied
\* to the buffer after write_to_buffer returns a value equal to the original,
\* and write_to_buffer changes only bytes 4 to 18 of the buffer.
C17_ChipSettingsRoundTrip ==
  (call.op = "ChipSettings" /\ pc \in {"encoded", "roundtrip"}) =>
    /\ OnlyBytesChanged(4, 18)
    /\ pc = "roundtrip" => result = Ok(call.arg.value)

C17_Witness ==
  /\ RoundTripOf("ChipSettings")
  /\ call.arg.buf = FilledBuffer
  /\ call.arg.value.gp_mode[8] = "Dedicated"
  /\ call.arg.value.gp_mode[0] = "Gpio"
  /\ cmd[12] = 2
  /\ cmd[17] = 23
  /\ cmd[18] = 128
  /\ result = Ok(call.arg.value)

\* C18: for every SpiTransferSettings value of the legal domain, from_buffer
\* applied to the buffer after write_to_buffer returns a value equal to the
\* original; the bit rate is stored little-endian in bytes 4..7, the two
\* chip-select sets in 8..9 and 10..11, the three delays in 12..17, the bytes
\* per transaction in 18..19, the SPI mode in byte 20, and no other byte is
\* changed.
C18_SpiTransferSettingsRoundTrip ==
  (call.op = "SpiTransferSettings" /\ pc \in {"encoded", "roundtrip"}) =>
    LET v == call.arg.value
        le16(i) == cmd[i] + 256 * cmd[i + 1]
    IN /\ OnlyBytesChanged(4, 20)
       /\ cmd[4] + 256 * cmd[5] + 65536 * cmd[6] + 16777216 * cmd[7] = v.bit_rate
       /\ le16(8) = v.cs_idle
       /\ le16(10) = v.cs_active
       /\ le16(12) = v.delay_cs_to_data
       /\ le16(14) = v.delay_last_data_to_cs
       /\ le16(16) = v.delay_between_data
       /\ le16(18) = v.bytes_per_tx
       /\ cmd[20] = CASE v.spi_mode = "Mode0" -> 0 [] v.spi_mode = "Mode1" -> 1
                      [] v.spi_mode = "Mode2" -> 2 [] v.spi_mode = "Mode3" -> 3
       /\ pc = "roundtrip" => result = Ok(v)

C18_Witness ==
  /\ RoundTripOf("SpiTransferSettings")
  /\ call.arg.buf = FilledBuffer
  /\ call.arg.value.bit_rate = 1144201745
  /\ cmd[4] = 17 /\ cmd[5] = 34 /\ cmd[6] = 51 /\ cmd[7] = 68
  /\ call.arg.value.delay_last_data_to_cs = 65535
  /\ call.arg.value.spi_mode = "Mode3"
  /\ result = Ok(call.arg.value)

\* C19: for every response the engine accepts for get_chip_status or
\* cancel_spi_transfer: when byte 2 is in {0,1}, byte 3 in {0,1,2} and byte 5
\* in {0,1} the call returns the ChipStatus with is_bus_release_pending = the
\* negation of byte 2, bus_owner None/UsbBridge/ExternalMaster for byte 3 =
\* 0/1/2, password_attempt_count = byte 4, is_password_guessed = byte 5; for
\* any other value of byte 2, 3 or 5 it returns a decode error.
C19_ChipStatusDecode ==
  (/\ call.op \in {"get_chip_status", "cancel_spi_transfer"}
   /\ pc = "done"
   /\ ret_do_command.tag = "Ok") =>
    LET b == response_buffer
    IN IF b[2] \in {0, 1} /\ b[3] \in {0, 1, 2} /\ b[5] \in {0, 1}
       THEN result = Ok([is_bus_release_pending |-> (b[2] = 0),
                         bus_owner |-> CASE b[3] = 0 -> "None"
                                         [] b[3] = 1 -> "UsbBridge"
                                         [] b[3] = 2 -> "ExternalMaster",
                         password_attempt_count |-> b[4],
                         is_password_guessed |-> (b[5] = 1)])
       ELSE result.tag = "Err" /\ result.kind = "InvalidResponse"

C19_Witness ==
  /\ call.op = "cancel_spi_transfer"
  /\ pc = "done"
  /\ response_buffer[0] = 17 /\ response_buffer[1] = 0 /\ response_buffer[2] = 0
  /\ response_buffer[3] = 1 /\ response_buffer[4] = 79 /\ response_buffer[5] = 0
  /\ result = Ok([is_bus_release_pending |-> TRUE, bus_owner |-> "UsbBridge",
                  password_attempt_count |-> 79, is_password_guessed |-> FALSE])

\* the enumerated fields of a raw buffer that hold a value outside their set,
\* each with the value the decoder looks at
Offending(kind, b) ==
  CASE kind = "ChipSettings" ->
         {<<GpModeFields[j + 1], b[4 + j]>> : j \in {i \in 0..8 : b[4 + i] \notin {0, 1, 2}}}
         \cup (IF (b[17] \div 2) % 8 \notin 0..4
               THEN {<<"interrupt_mode", (b[17] \div 2) % 8>>} ELSE {})
         \cup (IF b[18] \notin {0, 64, 128} THEN {<<"nvram_access_control", b[18]>>} ELSE {})
    [] kind = "SpiTransferSettings" ->
         IF b[20] \notin 0..3 THEN {<<"spi_mode", b[20]>>} ELSE {}
    [] kind = "UsbParameters" ->
         IF b[29] \div 64 \notin {1, 2} THEN {<<"power_option", b[29] \div 64>>} ELSE {}
    [] kind = "ChipStatus" ->
         (IF b[2] \notin {0, 1} THEN {<<"is_bus_release_pending", b[2]>>} ELSE {})
         \cup (IF b[3] \notin {0, 1, 2} THEN {<<"bus_owner", b[3]>>} ELSE {})
         \cup (IF b[5] \notin {0, 1} THEN {<<"is_password_guessed", b[5]>>} ELSE {})

\* the raw values an enumerated field accepts
KnownSet(kind) ==
  CASE kind \in {"PinMode", "BusOwner"} -> {0, 1, 2}
    [] kind = "InterruptMode" -> 0..4
    [] kind = "NvramAccessControl" -> {0, 64, 128}
    [] kind = "SpiMode" -> 0..3
    [] kind = "UsbPowerOption" -> {1, 2}
    [] kind = "SpiTransferStatus" -> {16, 32, 48}
    [] kind = "bool" -> {0, 1}

\* C20: decoding fails, and names a field that holds a value outside its
\* known set together with that value, whenever an enumerated field of the
\* record is outside its set; it returns a value whenever every enumerated
\* field is inside its set.  The decoder of a single enumerated field fails
\* with the raw value exactly when the value is outside the set.
C20_EnumeratedFieldsValidated ==
  /\ (pc \in {"decoded", "roundtrip"}) =>
       /\ (result.tag = "Err") <=> (Offending(call.op, cmd) # {})
       /\ (result.tag = "Err") =>
            (result.kind = "String" /\ <<result.args[1], result.args[2]>> \in Offending(call.op, cmd))
       /\ result.tag \in {"Ok", "Err"}
  /\ (pc = "field") =>
       IF call.arg \in KnownSet(call.op) THEN result.tag = "Ok"
       ELSE result = Err("u8", <<call.arg>>)

C20_Witness ==
  /\ pc = "decoded"
  /\ call.op = "ChipSettings"
  /\ cmd[6] = 3
  /\ cmd[17] = 14
  /\ cmd[18] = 65
  /\ result = Err("String", <<"gp2_mode", 3>>)

\* C21: decoding a 9-bit flag set never fails and never rejects a raw value:
\* for every 16-bit little-endian raw value the decoded set is the raw value
\* with bits 9 to 15 cleared (raw mod 512), in get_gpio_value and
\* get_gpio_direction (response bytes 4, 5), in ChipSettings (bytes 13, 14 and
\* 15, 16) and in SpiTransferSettings (bytes 8, 9 and 10, 11).
C21_FlagSetsTruncated ==
  /\ (call.op \in {"get_gpio_value", "get_gpio_direction"} /\ pc = "done"
        /\ ret_do_command.tag = "Ok") =>
       result = Ok((response_buffer[4] + 256 * response_buffer[5]) % 512)
  /\ (call.op = "ChipSettings" /\ pc \in {"decoded", "roundtrip"}) =>
       IF result.tag = "Ok"
       THEN /\ result.val.default_gpio_value = (cmd[13] + 256 * cmd[14]) % 512
            /\ result.val.default_gpio_direction = (cmd[15] + 256 * cmd[16]) % 512
       ELSE result.args[1] \notin {"default_gpio_value", "default_gpio_direction"}
  /\ (call.op = "SpiTransferSettings" /\ pc \in {"decoded", "roundtrip"}) =>
       IF result.tag = "Ok"
       THEN /\ result.val.cs_idle = (cmd[8] + 256 * cmd[9]) % 512
            /\ result.val.cs_active = (cmd[10] + 256 * cmd[11]) % 512
       ELSE result.args[1] = "spi_mode"

C21_Witness ==
  /\ call.op = "get_gpio_direction"
  /\ pc = "done"
  /\ response_buffer[4] = 85
  /\ response_buffer[5] = 255
  /\ result = Ok(341)

---------------------------------------------------------------------------
(* Properties of the typed operations and of the frames they emit          *)

\* the operations that decode a value from the response payload
TypedGetters == GetterOps \cup {"spi_transfer", "read_eeprom"}

\* the payload of the response would not decode: a sub-command echo, an
\* enumerated byte, a length or an address that the operation rejects
PayloadRejected ==
  \/ call.op \in SubOps /\ response_buffer[2] # SubCode(call.op)
  \/ call.op \in {"get_chip_status", "cancel_spi_transfer"}
       /\ (response_buffer[2] > 1 \/ response_buffer[3] > 2 \/ response_buffer[5] > 1)
  \/ call.op = "get_chip_settings" /\ response_buffer[7] > 2
  \/ call.op = "spi_transfer"
       /\ (response_buffer[2] > 60 \/ response_buffer[3] \notin {16, 32, 48})
  \/ call.op = "read_eeprom" /\ response_buffer[2] # call.arg
  \/ call.op \in {"get_nvram_usb_product_name", "get_nvram_usb_vendor_name"}
       /\ response_buffer[4] < 2

\* C22: the status byte is checked before any payload field is read: for every
\* typed getter, a response that echoes the command code and carries a
\* non-zero status byte makes the operation return the status error of that
\* byte, never a value, a decode error, a sub-command error or a panic,
\* whatever the rest of the response holds.
C22_StatusBeforePayload ==
  (call.op \in TypedGetters /\ ExchangeCompleted
     /\ response_buffer[0] = OpCode(call.op) /\ response_buffer[1] # 0) =>
    LET st == response_buffer[1]
    IN /\ pc = "done"
       /\ result =
            CASE st = 247 -> Err("Unavailable", <<>>)
              [] st = 248 -> Err("Busy", <<>>)
              [] st = 249 -> Err("UnknownCommandCode", <<OpCode(call.op)>>)
              [] st = 250 -> Err("EepromWrite", <<>>)
              [] st = 251 -> Err("AccessDenied", <<>>)
              [] st = 252 -> Err("AccessRejected", <<>>)
              [] st = 253 -> Err("AccessDeniedRetry", <<>>)
              [] OTHER -> Err("UnknownErrorCode", <<st>>)

C22_Witness ==
  /\ call.op = "get_nvram_usb_product_name"
  /\ pc = "done"
  /\ response_buffer[0] = 97
  /\ response_buffer[1] = 248
  /\ PayloadRejected
  /\ response_buffer[4] = 1
  /\ result = Err("Busy", <<>>)

\* C23: whenever spi_transfer returns Ok, its received-data view is exactly
\* response bytes 4..4+n with n = response byte 2, whatever the length of the
\* outbound payload was, and the view is at most 60 bytes long.
C23_ViewFromResponseLength ==
  (call.op = "spi_transfer" /\ pc = "done" /\ result.tag = "Ok") =>
    LET n == response_buffer[2]
        view == result.val.data
    IN /\ n <= 60
       /\ Len(view) = n
       /\ \A i \in 1..n : view[i] = response_buffer[3 + i]

C23_Witness ==
  /\ call.op = "spi_transfer"
  /\ pc = "done"
  /\ Len(call.arg) = 0
  /\ response_buffer[2] = 60
  /\ result.tag = "Ok"
  /\ Len(result.val.data) = 60
  /\ result.val.data[60] = response_buffer[63]

\* the operations whose closure writes nothing into the frame
EmptyFillerOps == GetterOps \ {"get_interrupt_event_counter", "reset_interrupt_event_counter"}

\* the frame offsets the call c assigns (code, sub-code or parameter, payload)
Written(c) ==
  CASE c.op \in EmptyFillerOps -> IF c.op \in SubOps THEN {0, 1} ELSE {0}
    [] c.op \in {"get_interrupt_event_counter", "reset_interrupt_event_counter",
                 "read_eeprom", "request_bus_release"} -> {0, 1}
    [] c.op = "write_eeprom" -> {0, 1, 2}
    [] c.op = "set_chip_settings" -> {0} \cup (4..18)
    [] c.op \in {"set_gpio_value", "set_gpio_direction"} -> {0, 4, 5}
    [] c.op = "set_spi_transfer_settings" -> {0} \cup (4..20)
    [] c.op = "set_nvram_spi_transfer_settings" -> {0, 1} \cup (4..20)
    [] c.op = "spi_transfer" -> {0, 1} \cup (4..(3 + Len(c.arg)))
    [] c.op = "set_nvram_chip_settings" ->
         {0, 1} \cup (4..18) \cup (IF c.arg.password = <<>> THEN {} ELSE 19..26)
    [] c.op = "set_nvram_usb_parameters" -> {0, 1} \cup (4..9)
    [] c.op \in {"set_nvram_usb_product_name", "set_nvram_usb_vendor_name"} ->
         {0, 1, 4, 5} \cup (6..(5 + 2 * CodeUnits(c.arg)))
    [] c.op = "send_access_password" -> {0} \cup (4..11)

\* a zeroed frame that carries the code of c, and its sub-code if it has one
CodesOnly(c) ==
  [i \in 0..(BufferLen - 1) |->
     IF i = 0 THEN OpCode(c.op)
     ELSE IF i = 1 /\ c.op \in SubOps THEN SubCode(c.op)
     ELSE 0]

\* C24: the command frame is built fresh and zeroed on every call: whatever
\* earlier operations left in the response buffer, the frame an operation
\* emits is its closure applied to a zeroed frame holding the command code
\* (and sub-code), so every byte the call does not assign is zero; for a
\* getter that passes no parameter the frame is all-zero except byte 0 = the
\* command code (plus byte 1 = the sub-code for sub-commands), and the
\* interrupt-counter read and reset add only their byte-1 parameter.
C24_FrameFreshAndZeroed ==
  pc \in {"write", "read"} =>
    /\ cmd[0] = OpCode(Inner.op)
    /\ \A i \in (0..(BufferLen - 1)) \ Written(Inner) : cmd[i] = 0
    /\ cmd = Filler(Inner, CodesOnly(Inner))
    /\ Inner.op \in EmptyFillerOps => cmd = CodesOnly(Inner)
    /\ Inner.op = "get_interrupt_event_counter" => cmd = [CodesOnly(Inner) EXCEPT ![1] = 255]
    /\ Inner.op = "reset_interrupt_event_counter" => cmd = CodesOnly(Inner)

C24_Witness ==
  /\ call.op = "get_chip_status"
  /\ pc = "write"
  /\ response_buffer[1] = 248
  /\ response_buffer[4] = 170
  /\ response_buffer[63] # 0
  /\ cmd = [ZeroBuffer EXCEPT ![0] = 16]

\* C25: send_access_password, for every 8-byte password, performs one exchange
\* whose command frame has byte 0 = 0x70, the 8 password bytes at offsets 4 to
\* 11 and zero elsewhere, and returns the outcome of that exchange.
C25_PasswordFrameSent ==
  (call.op = "send_access_password" /\ Len(call.arg) = 8) =>
    /\ pc \in {"write", "read", "done"}
    /\ cmd = [i \in 0..(BufferLen - 1) |->
                IF i = 0 THEN 112
                ELSE IF i \in 4..11 THEN call.arg[i - 3]
                ELSE 0]
    /\ pc = "done" => (nwrites = 1 /\ result = ret_do_command)

NameSetters == {"set_nvram_usb_product_name", "set_nvram_usb_vendor_name"}

\* C26: for every name of n <= 29 UTF-16 code units the product-name and
\* vendor-name setters emit a frame with byte 4 = 2n + 2 (at most 60), byte 5
\* = 0x03, the code units little-endian in bytes 6..6+2n, all inside the
\* 64-byte frame, and zero in the remaining payload bytes; the string of
\* test_encode_utf16_to_buffer is laid out as that test expects.
C26_NameFrameLayout ==
  /\ (call.op \in NameSetters /\ CodeUnits(call.arg) <= 29 /\ pc # "idle") =>
       pc \in {"write", "read", "done"}
  /\ (call.op \in NameSetters /\ pc \in {"write", "read"}) =>
       LET u == encode_utf16(call.arg)
           n == Len(u)
       IN /\ n <= 29
          /\ DOMAIN cmd = 0..63
          /\ cmd[4] = 2 * n + 2
          /\ cmd[4] <= 60
          /\ cmd[5] = 3
          /\ \A k \in 1..n :
               /\ 5 + 2 * k <= 63
               /\ cmd[4 + 2 * k] = u[k] % 256
               /\ cmd[5 + 2 * k] = u[k] \div 256
          /\ \A i \in {2, 3} \cup ((6 + 2 * n)..63) : cmd[i] = 0
          /\ call.arg = TestName =>
               Slice(cmd, 6, 14) =
                 <<244, 188, 124, 183, 201, 192, 32, 0, 224, 172, 145, 197, 116, 199>>

C26_Witness ==
  /\ call.op = "set_nvram_usb_product_name"
  /\ pc = "write"
  /\ CodeUnits(call.arg) = 29
  /\ Len(call.arg) = 15
  /\ cmd[4] = 60
  /\ cmd[62] = 1
  /\ cmd[63] = 172

---------------------------------------------------------------------------
(* Properties of the chunked driver: cursor, termination                   *)

\* the number of input bytes the driver's cursor has passed
Cursor == Len(call.arg.data) - Len(data)

\* the frame in `cmd` carries the chunk at the cursor: at most 60 bytes, the
\* next bytes of the input in input order, nothing behind them
ChunkAtCursor ==
  /\ Cursor \in 0..Len(call.arg.data)
  /\ data = SubSeq(call.arg.data, Cursor + 1, Len(call.arg.data))
  /\ cmd[1] <= 60
  /\ cmd[1] = Min2(Len(call.arg.data) - Cursor, 60)
  /\ Slice(cmd, 4, cmd[1]) = SubSeq(call.arg.data, Cursor + 1, Cursor + cmd[1])
  /\ \A i \in (4 + cmd[1])..63 : cmd[i] = 0
  /\ data = <<>> => cmd[1] = 0

\* an exchange of the driver ends with spi_transfer returning Ok
ChunkExchangeSucceeds ==
  /\ call.op = "spi_transfer_to_end"
  /\ pc = "read"
  /\ nreads' = nreads + 1
  /\ ret_do_command'.tag = "Ok"
  /\ response_buffer'[2] <= 60
  /\ response_buffer'[3] \in {16, 32, 48}

\* C27: in spi_transfer_to_end every exchange carries at most 60 payload
\* bytes; the chunk is the slice of the input at the cursor; a successful
\* exchange moves the cursor forward by exactly the chunk just sent, so the
\* chunks of successive successful exchanges are consecutive, non-overlapping
\* slices in input order, and any other exchange leaves the cursor where it
\* was; the cursor never passes the end of the input, and once the input is
\* exhausted every further exchange carries an empty chunk.
C27_ChunksConsecutive ==
  [][/\ (call'.op = "spi_transfer_to_end" /\ pc' \in {"write", "read"}) => ChunkAtCursor'
     /\ (call.op = "spi_transfer_to_end" /\ pc = "read" /\ nreads' = nreads + 1) =>
          /\ Cursor' = IF ChunkExchangeSucceeds THEN Cursor + cmd[1] ELSE Cursor
          /\ Cursor' <= Len(call.arg.data)
          /\ call' = call
    ]_vars

C27_Witness ==
  /\ call.op = "spi_transfer_to_end"
  /\ Len(call.arg.data) = 121
  /\ pc = "read"
  /\ nreads = 3
  /\ Cursor = 121
  /\ cmd[1] = 0
  /\ Len(buf) = Len(call.arg.buf) + 4

\* C28: spi_transfer_to_end returns Ok only when every byte of the caller's
\* input has been sent in a successful exchange: a successful return never
\* leaves unsent input behind, even when the device reports Finished while
\* input chunks remain.
C28_OkOnlyWhenAllSent ==
  (call.op = "spi_transfer_to_end" /\ pc = "done" /\ result.tag = "Ok") =>
    /\ data = <<>>
    /\ Cursor = Len(call.arg.data)

\* C29: the data returned by the Start exchange of spi_transfer_to_end is not
\* added to the output: the output starts as the caller's buffer, is still
\* that buffer when the driver enters Continue (even when the Started response
\* carried data), and from then on grows only by the data view of each
\* successful Continue exchange, appended in order; so on an Ok return the
\* appended bytes are exactly the views of the successful Continue exchanges.
C29_StartDataDropped ==
  [][(call.op = "spi_transfer_to_end" /\ call' = call) =>
       /\ buf' = IF ContinueExchangeSucceeds
                 THEN buf \o Slice(response_buffer', 4, response_buffer'[2])
                 ELSE buf
       /\ phase = "Start" => buf' = call.arg.buf
    ]_vars

C29_Witness ==
  /\ call.op = "spi_transfer_to_end"
  /\ phase = "Continue"
  /\ pc = "write"
  /\ nreads = 1
  /\ response_buffer[2] = 2
  /\ response_buffer[3] = 32
  /\ response_buffer[4] = 170
  /\ buf = call.arg.buf

\* C30: if the transport never fails, the first exchange reports Started, and
\* the device answers Busy, Started or Pending only finitely many times before
\* it answers a Continue exchange with Finished, then spi_transfer_to_end
\* eventually terminates with Ok.
C30_TerminatesWithOk ==
  (call.op = "spi_transfer_to_end") ~>
    (call.op = "spi_transfer_to_end" /\ pc = "done" /\ result = Ok(<<>>))

C30_Witness ==
  /\ call.op = "spi_transfer_to_end"
  /\ Len(call.arg.data) = 121
  /\ pc = "done"
  /\ result = Ok(<<>>)
  /\ nreads = 4
  /\ response_buffer[3] = 16
  /\ data = <<>>

---------------------------------------------------------------------------
(* Properties of the name getters, of the output buffer and of the reused  *)
(* response buffer                                                         *)

NameGetters == {"get_nvram_usb_product_name", "get_nvram_usb_vendor_name"}

\* C31: get_nvram_usb_product_name and get_nvram_usb_vendor_name, for every
\* accepted response and every value of the length-prefix byte (response byte
\* 4), return normally with a string of (byte 4 - 2) / 2 code units decoded
\* little-endian from response bytes 6 onward, without arithmetic underflow
\* and without reading or writing outside the 64-byte response or the 29-unit
\* character buffer.
C31_NameGetterReturns ==
  (call.op \in NameGetters /\ ExchangeCompleted /\ ret_do_command.tag = "Ok"
     /\ response_buffer[2] = SubCode(call.op)) =>
    /\ pc = "done"
    /\ response_buffer[4] >= 2
    /\ LET str_chars == (response_buffer[4] - 2) \div 2
       IN /\ str_chars <= MaxNameUnits
          /\ 5 + 2 * str_chars <= BufferLen - 1
          /\ result = Ok(from_utf16_lossy(
                          [i \in 1..str_chars |->
                             response_buffer[4 + 2 * i]
                               + 256 * response_buffer[5 + 2 * i]]))

\* the sequence p is an initial part of the sequence q
IsPrefix(p, q) == Len(p) <= Len(q) /\ SubSeq(q, 1, Len(p)) = p

\* C32: spi_transfer_to_end only ever appends to the caller's output buffer:
\* at every step of a call the buffer keeps what it held (so the bytes present
\* before the call stay at its front, unchanged); an exchange that fails or is
\* answered Busy, and the step on which the call aborts with an error, leave
\* the buffer as it was, so the bytes appended by earlier successful Continue
\* exchanges remain after the error.
C32_OutputOnlyAppended ==
  [][(call.op = "spi_transfer_to_end" /\ call' = call) =>
       /\ IsPrefix(buf, buf')
       /\ IsPrefix(call.arg.buf, buf')
       /\ (pc' \in {"done", "panic"} /\ result'.tag # "Ok") => buf' = buf
       /\ (pc = "write" /\ pc' # "read") => buf' = buf
       /\ (pc = "read" /\ ~ChunkExchangeSucceeds) => buf' = buf
    ]_vars

C32_Witness ==
  /\ call.op = "spi_transfer_to_end"
  /\ call.arg.buf = <<7>>
  /\ phase = "Continue"
  /\ pc = "done"
  /\ result = Err("Unavailable", <<>>)
  /\ nreads = 3
  /\ buf = <<7, 170, 85>>

\* what the call in progress returns when its last exchange read the frame
\* res: a function of the call, of the driver's phase and of res alone
OutcomeOf(res) ==
  LET r == Finish(Inner, res)
  IN IF call.op = "spi_transfer_to_end"
     THEN LET s == ste_step(phase, data, buf, r)
          IN [pc |-> s.pc, result |-> s.result]
     ELSE [pc |-> IF r.panic THEN "panic" ELSE "done", result |-> r.ret]

\* C33: although the response buffer is reused across calls, what an
\* operation returns depends only on that call's arguments and on the
\* response frame read during that call: whatever earlier operations and
\* responses left in the buffer, a call that ends without an exchange returns
\* its validation error (or panics in its closure), a call whose transport
\* fails returns the I/O error, and every other call returns the outcome
\* decoded from the frame its last exchange read, which is the frame the
\* buffer then holds; no stale response byte is decoded.
C33_ResultFromCurrentResponse ==
  pc \in {"done", "panic"} =>
    IF nwrites = 0
    THEN /\ nreads = 0
         /\ IF Validate(call).tag = "Err"
            THEN pc = "done" /\ result = Validate(call)
            ELSE pc = "panic" /\ FillerPanics(call)
    ELSE IF ret_do_command.kind = "Io"
    THEN pc = "done" /\ result = ret_do_command
    ELSE /\ nreads >= 1
         /\ pc = OutcomeOf(response_buffer).pc
         /\ result = OutcomeOf(response_buffer).result
         /\ (call.op = "spi_transfer" /\ result.tag = "Ok") =>
              result.val.data = Slice(response_buffer, 4, response_buffer[2])
         /\ (call.op = "read_eeprom" /\ result.tag = "Ok") =>
              result.val = response_buffer[3]
         /\ (call.op \in {"get_gpio_value", "get_gpio_direction"} /\ result.tag = "Ok") =>
              result.val = (response_buffer[4] + 256 * response_buffer[5]) % 512

C33_Witness ==
  /\ call.op = "get_gpio_value"
  /\ pc = "done"
  /\ nreads = 1
  /\ response_buffer[0] = 49
  /\ \A i \in 1..(BufferLen - 1) : response_buffer[i] = 0
  /\ result = Ok(0)

====
